---- MODULE Spec2Model ----
(***************************************************************************)
(* CareLog: the record service (modules/auth.py, CareLogService) and the   *)
(* messaging store (modules/chat.py, ChatService) over the one in-memory   *)
(* document self._data, with the session user self.current_user.           *)
(*                                                                         *)
(* Python values are represented as follows.  None and an absent dict key  *)
(* are the empty sequence <<>>, a present optional value x is <<x>>.       *)
(* Return values are strings: "True", "False", "None", "User" (a User      *)
(* object, which is then also self.current_user) and the sentinel strings  *)
(* of the code.  A str is a TLA+ string where the code only compares and   *)
(* concatenates it (user names, ids), and a sequence of one-character      *)
(* strings where the code looks inside it (passwords, message text).       *)
(*                                                                         *)
(* Every method is an operator named as in the source whose first          *)
(* parameter, self, is the service object before the call (a record of     *)
(* the variables) and whose value is the service object after it, with     *)
(* the returned value in self.ret.  The actions (RegisterUser, Login, ...) *)
(* apply a method to the current state.                                    *)
(***************************************************************************)
EXTENDS Integers, Sequences, FiniteSets, TLC

VARIABLES
    data,          \* self._data['hospitals']: hospital id -> hospital record
    current_user,  \* self.current_user: None or <<[username, role]>>
    disk,          \* DATA_FILE: None when no file, Some(document), or an unreadable file
    next_id,       \* how many uuid4() / generated ids have been handed out
    ret,           \* the last call: [op, val]
    peer           \* a second service object on the same DATA_FILE:
                   \* [data, current_user, ret]

vars == <<data, current_user, disk, next_id, ret, peer>>

None == <<>>
Some(x) == <<x>>

Range(s) == {s[i] : i \in DOMAIN s}

RECURSIVE SelectSeqBy(_, _)
\* [x for x in s if keep[x]] written without a higher-order argument:
\* keep is the set of the elements of s that stay.
SelectSeqBy(s, keep) ==
    IF s = <<>> THEN <<>>
    ELSE IF Head(s) \in keep THEN <<Head(s)>> \o SelectSeqBy(Tail(s), keep)
         ELSE SelectSeqBy(Tail(s), keep)

\* d.pop(k, None) / del d[k] on a dict modelled as a function
DictRemove(d, k) == [x \in DOMAIN d \ {k} |-> d[x]]

\* d[k] = v on a dict modelled as a function (new or existing key)
DictSet(d, k, v) == [x \in DOMAIN d \cup {k} |-> IF x = k THEN v ELSE d[x]]

-----------------------------------------------------------------------------
(* Bounds and input sets *)

MaxRegUsers == 2      \* user records in the document, SpecReg
MaxAccessUsers == 3   \* user records in the document, SpecAccess
MaxAccessIds == 2     \* generated ids (notes) per behaviour, SpecAccess
MaxAlertIds == 3      \* generated ids (notes) per behaviour, SpecAlerts
MaxDeleteIds == 2     \* generated ids (notes, messages) per behaviour, SpecDelete
MaxAdminIds == 2      \* generated ids (notes, messages) per behaviour, SpecAdmin
MaxDirectIds == 2     \* generated ids (messages) per behaviour, SpecDirect
MaxReadIds == 3       \* generated ids (messages) per behaviour, SpecRead
MaxStoreIds == 2      \* generated ids (notes, messages) per behaviour, SpecStore
MaxCrashIds == 2      \* generated ids (notes, messages) per behaviour, SpecCrash
MaxFeedbackIds == 2   \* generated ids (notes) per behaviour, SpecFeedback
MaxTenantIds == 2     \* generated ids (notes, messages) per behaviour, SpecTenant
MaxDismissIds == 3    \* generated ids (notes, messages) per behaviour, SpecDismiss
MaxSharedIds == 2     \* generated ids (messages) per behaviour, SpecShared
MaxTwoIds == 2        \* generated ids (notes) per behaviour, SpecTwo

Roles == {"patient", "clinician", "admin"}
Usernames == {"u1", "u2"}
HospitalIds == {"H1", "H2"}
Salts == {"5a", "c3"}          \* os.urandom(16).hex(), shortened

\* Characters, as str.isupper / islower / isdigit / isalnum class them.
UpperChars == {"V", "P", "N", "S", "K"}
LowerChars == {"a", "b", "c", "d", "e", "i", "l", "o", "s", "y"}
DigitChars == {"0", "1", "4"}

PwValid == <<"V", "4", "l", "i", "d", "!", "P", "a", "s", "s">>   \* V4lid!Pass
PwOther == <<"S", "a", "l", "e", "s", "#", "K", "e", "y", "0">>   \* Sales#Key0
PwShort == <<"V", "4", "l", "i", "d", "!", "P">>                  \* V4lid!P
PwNoDigit == <<"N", "o", "d", "i", "e", "s", "!", "!">>           \* Nodies!!
PwNoSpecial == <<"N", "o", "s", "i", "d", "e", "s", "1">>         \* Nosides1
PwNoUpper == <<"a", "l", "l", "s", "i", "d", "e", "1", "!">>      \* allside1!
PwNoLower == <<"V", "V", "S", "S", "K", "K", "1", "!">>           \* VVSSKK1!

-----------------------------------------------------------------------------
(* modules/auth.py *)

\* the service object in the current state
Self ==
    [data |-> data, current_user |-> current_user, disk |-> disk,
     next_id |-> next_id, ret |-> ret]

\* the call leaves the service object as post
Becomes(post) ==
    /\ data' = post.data
    /\ current_user' = post.current_user
    /\ disk' = post.disk
    /\ next_id' = post.next_id
    /\ ret' = post.ret
    /\ peer' = peer

\* what the last call was and what it returned
Return(op, val) == [op |-> op, val |-> val]

\* _save_data leaving the file as it is
save_data_writes_nothing(self) == self

\* _save_data: open(DATA_FILE, 'w'); json.dumps; encrypt; write: the whole
\* document replaces the file
save_data(self) == [self EXCEPT !.disk = Some(self.data)]

MinPasswordLen == 8

_is_strong_password(password) ==
    IF Len(password) < MinPasswordLen THEN FALSE
    ELSE LET has_upper == \E i \in DOMAIN password : password[i] \in UpperChars
             has_lower == \E i \in DOMAIN password : password[i] \in LowerChars
             has_digit == \E i \in DOMAIN password : password[i] \in DigitChars
             has_special == \E i \in DOMAIN password :
                 password[i] \notin UpperChars \cup LowerChars \cup DigitChars
         IN has_upper /\ has_lower /\ has_digit /\ has_special

\* f"{username}_{role}"
user_key(username, role) == username \o "_" \o role

\* hashlib.sha256((salt + password).encode()).hexdigest(), collision free:
\* the digest is identified with the salted input it was computed from.
password_hash_of(salt, password) == <<"sha256", salt, password>>

EmptyHospital ==
    [users |-> <<>>, notes |-> <<>>, alerts |-> <<>>,
     chats |-> [general |-> <<>>, direct |-> <<>>]]


\* the user records of the whole document, as (hospital id, key) pairs
all_user_keys(d) == UNION {{<<h, k>> : k \in DOMAIN d[h].users} : h \in DOMAIN d}

\* register_rejection without its duplicate check
register_rejection_no_duplicate_check(password, role, is_new_hospital, key, users) ==
    IF ~_is_strong_password(password) THEN "weak_password"
    ELSE IF is_new_hospital /\ role # "admin" THEN "hospital_not_found"
    ELSE "ok"

\* register_user up to the duplicate check: the sentinel it returns, "ok" when
\* the registration goes ahead (users: the hospital's users, {} for a new one)
register_rejection(password, role, is_new_hospital, key, users) ==
    IF ~_is_strong_password(password) THEN "weak_password"
    ELSE IF is_new_hospital /\ role # "admin" THEN "hospital_not_found"
    ELSE IF key \in DOMAIN users THEN "False"
    ELSE "ok"

\* initial_status without the exception for the hospital's first admin
initial_status_staff_always_pending(role, is_new_hospital) ==
    IF role = "admin" \/ role = "clinician" THEN "pending" ELSE "approved"

\* the status register_user gives the new account
initial_status(role, is_new_hospital) ==
    IF (role = "admin" \/ role = "clinician") /\ ~is_new_hospital
    THEN "pending" ELSE "approved"

\* salt is what os.urandom(16).hex() returns in this call
register_user(self, username, password, role, hospital_id, full_name, salt) ==
    LET is_new_hospital == hospital_id \notin DOMAIN self.data
        key == user_key(username, role)
        status == initial_status(role, is_new_hospital)
        record == [username |-> username,
                   password_hash |-> password_hash_of(salt, password),
                   role |-> role,
                   salt |-> salt,
                   status |-> status,
                   full_name |-> full_name,
                   assigned_clinicians |-> <<>>]
        hospital == IF is_new_hospital THEN EmptyHospital ELSE self.data[hospital_id]
        rejection == register_rejection(password, role, is_new_hospital, key,
                                        hospital.users)
    IN
    IF rejection # "ok"
    THEN [self EXCEPT !.ret = Return("register_user", rejection)]
    ELSE save_data(
           [self EXCEPT
              !.data = DictSet(@, hospital_id,
                          [hospital EXCEPT !.users = DictSet(@, key, record)]),
              !.ret = Return("register_user",
                             IF status = "pending" THEN "pending" ELSE "True")])

\* login_outcome without the check of the account's status
login_outcome_ignores_status(user_data, password) ==
    IF user_data.salt = "" THEN "error"
    ELSE IF user_data.password_hash = password_hash_of(user_data.salt, password)
    THEN "User"
    ELSE "None"

\* login once the user record is found: what it returns
login_outcome(user_data, password) ==
    IF user_data.status = "pending" THEN "pending"
    ELSE IF user_data.salt = "" THEN "error"
    ELSE IF user_data.password_hash = password_hash_of(user_data.salt, password)
    THEN "User"
    ELSE "None"

\* login signing the session user out when it fails
login_failure_ends_session(self, username, password, role, hospital_id) ==
    LET key == user_key(username, role)
        found == /\ hospital_id \in DOMAIN self.data
                 /\ key \in DOMAIN self.data[hospital_id].users
        outcome == IF found
                   THEN login_outcome(self.data[hospital_id].users[key], password)
                   ELSE "None"
    IN
    IF outcome = "User"
    THEN [self EXCEPT
            !.current_user =
                Some([username |-> self.data[hospital_id].users[key].username,
                      role |-> self.data[hospital_id].users[key].role]),
            !.ret = Return("login", "User")]
    ELSE [self EXCEPT !.current_user = None, !.ret = Return("login", outcome)]

login(self, username, password, role, hospital_id) ==
    LET key == user_key(username, role)
        found == /\ hospital_id \in DOMAIN self.data
                 /\ key \in DOMAIN self.data[hospital_id].users
        outcome == IF found
                   THEN login_outcome(self.data[hospital_id].users[key], password)
                   ELSE "None"
    IN
    IF outcome = "User"
    THEN [self EXCEPT
            !.current_user =
                Some([username |-> self.data[hospital_id].users[key].username,
                      role |-> self.data[hospital_id].users[key].role]),
            !.ret = Return("login", "User")]
    ELSE [self EXCEPT !.ret = Return("login", outcome)]

logout(self) ==
    [self EXCEPT !.current_user = None, !.ret = Return("logout", "None")]

approve_user(self, username, role, hospital_id) ==
    LET key == user_key(username, role) IN
    IF hospital_id \in DOMAIN self.data /\ key \in DOMAIN self.data[hospital_id].users
    THEN save_data(
           [self EXCEPT !.data[hospital_id].users[key].status = "approved",
                        !.ret = Return("approve_user", "True")])
    ELSE [self EXCEPT !.ret = Return("approve_user", "False")]

\* str(uuid.uuid4()): the k-th generated id
uuid4(k) == "id" \o ToString(k)

\* PatientNote.__init__ (mood, appetite and diagnoses are not modelled: no
\* operation of the service reads them); note_id and timestamp are None or
\* Some(value), as the caller passes them; fresh_id is what uuid4() and now
\* what datetime.now() return in this call.
PatientNote(patient_id, author_id, pain, notes, source, hospital_id, is_private, hidden_from_patient, note_id, timestamp, fresh_id, now) ==
    [note_id |-> IF note_id # None THEN note_id[1] ELSE fresh_id,
     hospital_id |-> hospital_id,
     patient_id |-> patient_id,
     author_id |-> author_id,
     timestamp |-> IF timestamp # None THEN timestamp[1] ELSE now,
     pain |-> pain,
     notes |-> notes,
     source |-> source,
     is_private |-> is_private,
     hidden_from_patient |-> hidden_from_patient,
     ai_feedback |-> None]

\* str(note.note_id): a note id is a str already
str(x) == x

SeverePain == 10

\* alert_for with the threshold one too low
alert_for_from_nine(note) ==
    IF note.pain >= SeverePain - 1 /\ note.source = "patient"
    THEN <<[alert_id |-> str(note.note_id), patient_id |-> note.patient_id,
            timestamp |-> note.timestamp, status |-> "new"]>>
    ELSE <<>>

\* the alerts add_note appends for a note: one or none
alert_for(note) ==
    IF note.pain = SeverePain /\ note.source = "patient"
    THEN <<[alert_id |-> str(note.note_id), patient_id |-> note.patient_id,
            timestamp |-> note.timestamp, status |-> "new"]>>
    ELSE <<>>

\* add_note filing the note under every hospital of the document
add_note_in_every_hospital(self, note, hospital_id) ==
    IF hospital_id \in DOMAIN self.data
    THEN save_data(
           [self EXCEPT
              !.data = [h \in DOMAIN @ |->
                           [@[h] EXCEPT !.notes = Append(@, note),
                                        !.alerts = @ \o alert_for(note)]],
              !.ret = Return("add_note", "None")])
    ELSE [self EXCEPT !.ret = Return("add_note", "None")]

add_note(self, note, hospital_id) ==
    IF hospital_id \in DOMAIN self.data
    THEN save_data(
           [self EXCEPT !.data[hospital_id].notes = Append(@, note),
                        !.data[hospital_id].alerts = @ \o alert_for(note),
                        !.ret = Return("add_note", "None")])
    ELSE [self EXCEPT !.ret = Return("add_note", "None")]

\* the index of the first note of the list with this id, 0 when there is none
first_note_index(notes, note_id) ==
    IF \E i \in DOMAIN notes : notes[i].note_id = note_id
    THEN CHOOSE i \in DOMAIN notes :
            /\ notes[i].note_id = note_id
            /\ \A j \in 1..(i - 1) : notes[j].note_id # note_id
    ELSE 0

\* feedback is what generate_feedback (modules/gemini.py) returns in this
\* call: None or Some(text); 'if feedback' is false for None and for ''
generate_and_store_ai_feedback(self, note_id, hospital_id, feedback) ==
    LET i == IF hospital_id \in DOMAIN self.data
             THEN first_note_index(self.data[hospital_id].notes, note_id) ELSE 0
    IN
    IF i # 0 /\ feedback # None /\ feedback # Some("")
    THEN save_data(
           [self EXCEPT
              !.data[hospital_id].notes[i].ai_feedback =
                  Some([text |-> feedback[1], status |-> "pending"]),
              !.ret = Return("generate_and_store_ai_feedback", "True")])
    ELSE [self EXCEPT !.ret = Return("generate_and_store_ai_feedback", "False")]

\* self._data['hospitals'].get(hospital_id, {}) with the .get(key, default)
\* of every later lookup applied
hospital_or_empty(self, hospital_id) ==
    IF hospital_id \in DOMAIN self.data THEN self.data[hospital_id]
    ELSE EmptyHospital

get_assigned_clinicians_for_patient(self, hospital_id, patient_username) ==
    LET users == hospital_or_empty(self, hospital_id).users
        patient_key == user_key(patient_username, "patient")
    IN IF patient_key \in DOMAIN users THEN users[patient_key].assigned_clinicians
       ELSE <<>>

get_notes_for_patient(self, hospital_id, patient_id) ==
    LET hospital_data == hospital_or_empty(self, hospital_id)
        all_patient_notes ==
            SelectSeqBy(hospital_data.notes,
                        {n \in Range(hospital_data.notes) : n.patient_id = patient_id})
        assigned_clinicians ==
            get_assigned_clinicians_for_patient(self, hospital_id, patient_id)
    IN
    IF self.current_user # None /\ self.current_user[1].role = "clinician"
    THEN IF self.current_user[1].username \in Range(assigned_clinicians)
         THEN SelectSeqBy(all_patient_notes,
                  {n \in Range(all_patient_notes) :
                      ~(n.source = "patient" /\ n.is_private)})
         ELSE <<>>
    ELSE all_patient_notes

\* get_all_patients raises AttributeError (current_user.role on None) when
\* nobody is logged in and the hospital has a patient record
get_all_patients_raises(self, hospital_id) ==
    /\ self.current_user = None
    /\ \E k \in DOMAIN hospital_or_empty(self, hospital_id).users :
           hospital_or_empty(self, hospital_id).users[k].role = "patient"

\* get_all_patients: the records of the returned list, as a set (the list is
\* in the insertion order of the users dict, which the model does not keep)
get_all_patients(self, hospital_id) ==
    LET hospital_users == hospital_or_empty(self, hospital_id).users IN
    IF self.current_user = None THEN {}
    ELSE {hospital_users[k] : k \in
            {k \in DOMAIN hospital_users :
                /\ hospital_users[k].role = "patient"
                /\ IF self.current_user[1].role = "clinician"
                   THEN self.current_user[1].username
                            \in Range(hospital_users[k].assigned_clinicians)
                   ELSE TRUE}}

get_pending_feedback(self, hospital_id) ==
    LET is_clinician ==
            self.current_user # None /\ self.current_user[1].role = "clinician"
        assigned_patient_ids ==
            {p.username : p \in get_all_patients(self, hospital_id)}
        notes == hospital_or_empty(self, hospital_id).notes
    IN SelectSeqBy(notes,
           {n \in Range(notes) :
               /\ n.ai_feedback # None
               /\ n.ai_feedback[1].status = "pending"
               /\ (is_clinician => n.patient_id \in assigned_patient_ids)})

\* str.lower() on the characters of the model
lower_char(c) ==
    CASE c = "O" -> "o" [] c = "K" -> "k" [] OTHER -> c

lower(text) == [i \in DOMAIN text |-> lower_char(text[i])]

\* needle in haystack, for two str
is_substring(needle, haystack) ==
    \E i \in 0..(Len(haystack) - Len(needle)) :
        \A j \in 1..Len(needle) : haystack[i + j] = needle[j]

\* search_notes (the diagnoses text is not modelled)
search_notes(self, hospital_id, patient_id, search_term) ==
    LET all_notes == get_notes_for_patient(self, hospital_id, patient_id) IN
    IF search_term = <<>> THEN all_notes
    ELSE SelectSeqBy(all_notes,
             {n \in Range(all_notes) : is_substring(lower(search_term), lower(n.notes))})

\* assign_clinician_to_patient without the membership test
assign_clinician_always_appends(self, hospital_id, patient_username, clinician_username) ==
    LET users == hospital_or_empty(self, hospital_id).users
        patient_key == user_key(patient_username, "patient")
    IN
    IF patient_key \in DOMAIN users
    THEN save_data(
           [self EXCEPT
              !.data[hospital_id].users[patient_key].assigned_clinicians =
                  Append(@, clinician_username),
              !.ret = Return("assign_clinician_to_patient", "True")])
    ELSE [self EXCEPT !.ret = Return("assign_clinician_to_patient", "False")]

assign_clinician_to_patient(self, hospital_id, patient_username, clinician_username) ==
    LET users == hospital_or_empty(self, hospital_id).users
        patient_key == user_key(patient_username, "patient")
    IN
    IF /\ patient_key \in DOMAIN users
       /\ clinician_username \notin Range(users[patient_key].assigned_clinicians)
    THEN save_data(
           [self EXCEPT
              !.data[hospital_id].users[patient_key].assigned_clinicians =
                  Append(@, clinician_username),
              !.ret = Return("assign_clinician_to_patient", "True")])
    ELSE [self EXCEPT !.ret = Return("assign_clinician_to_patient", "False")]

RECURSIVE list_remove(_, _)
\* list.remove(x): drops the first occurrence
list_remove(s, x) ==
    IF s = <<>> THEN <<>>
    ELSE IF Head(s) = x THEN Tail(s)
         ELSE <<Head(s)>> \o list_remove(Tail(s), x)

unassign_clinician_from_patient(self, hospital_id, patient_username, clinician_username) ==
    LET users == hospital_or_empty(self, hospital_id).users
        patient_key == user_key(patient_username, "patient")
    IN
    IF /\ patient_key \in DOMAIN users
       /\ clinician_username \in Range(users[patient_key].assigned_clinicians)
    THEN save_data(
           [self EXCEPT
              !.data[hospital_id].users[patient_key].assigned_clinicians =
                  list_remove(@, clinician_username),
              !.ret = Return("unassign_clinician_from_patient", "True")])
    ELSE [self EXCEPT !.ret = Return("unassign_clinician_from_patient", "False")]

\* [msg for msg in messages if msg.get('sender') != username]
strip_sender(messages, username) ==
    SelectSeqBy(messages, {m \in Range(messages) : m.sender # username})

\* delete_patient_cascade without the removal of the direct threads
delete_patient_cascade_keeps_direct(hospital, username) ==
    [hospital EXCEPT
        !.notes = SelectSeqBy(@, {n \in Range(@) : n.patient_id # username}),
        !.chats.general = DictRemove(@, username)]

\* delete_clinician_cascade with every note of the author removed, whatever
\* its source
delete_clinician_cascade_any_source(hospital, username) ==
    [hospital EXCEPT
        !.users = [k \in DOMAIN @ |->
                      IF @[k].role = "patient"
                      THEN [@[k] EXCEPT !.assigned_clinicians = list_remove(@, username)]
                      ELSE @[k]],
        !.notes = SelectSeqBy(@, {n \in Range(@) : n.author_id # username}),
        !.chats.direct = [p \in DOMAIN @ |-> DictRemove(@[p], username)],
        !.chats.general = [p \in DOMAIN @ |-> strip_sender(@[p], username)]]

\* delete_user, role == 'patient': the notes and chat history of the patient
delete_patient_cascade(hospital, username) ==
    [hospital EXCEPT
        !.notes = SelectSeqBy(@, {n \in Range(@) : n.patient_id # username}),
        !.chats.general = DictRemove(@, username),
        !.chats.direct = DictRemove(@, username)]

\* delete_user, role == 'clinician': assignments, authored notes, threads
delete_clinician_cascade(hospital, username) ==
    [hospital EXCEPT
        !.users = [k \in DOMAIN @ |->
                      IF @[k].role = "patient"
                      THEN [@[k] EXCEPT !.assigned_clinicians = list_remove(@, username)]
                      ELSE @[k]],
        !.notes = SelectSeqBy(@, {n \in Range(@) :
                      ~(n.author_id = username /\ n.source = "clinician")}),
        !.chats.direct = [p \in DOMAIN @ |-> DictRemove(@[p], username)],
        !.chats.general = [p \in DOMAIN @ |-> strip_sender(@[p], username)]]

\* delete_admin_cascade with the direct threads left as they are
delete_admin_cascade_general_only(hospital, username) ==
    [hospital EXCEPT
        !.chats.general = [p \in DOMAIN @ |-> strip_sender(@[p], username)]]

\* delete_user, any other role (admin): the messages the account sent
delete_admin_cascade(hospital, username) ==
    [hospital EXCEPT
        !.chats.general = [p \in DOMAIN @ |-> strip_sender(@[p], username)],
        !.chats.direct = [p \in DOMAIN @ |->
                             [c \in DOMAIN @[p] |-> strip_sender(@[p][c], username)]]]

\* delete_user without the test on the session user
delete_user_ignores_session(self, hospital_id, username, role) ==
    LET key == user_key(username, role)
        refused ==
            \/ hospital_id \notin DOMAIN self.data
            \/ key \notin DOMAIN self.data[hospital_id].users
    IN
    IF refused
    THEN [self EXCEPT !.ret = Return("delete_user", "False")]
    ELSE LET hospital ==
                 [self.data[hospital_id] EXCEPT !.users = DictRemove(@, key)]
         IN save_data(
              [self EXCEPT
                 !.data[hospital_id] =
                     IF role = "patient"
                     THEN delete_patient_cascade(hospital, username)
                     ELSE IF role = "clinician"
                     THEN delete_clinician_cascade(hospital, username)
                     ELSE delete_admin_cascade(hospital, username),
                 !.ret = Return("delete_user", "True")])

delete_user(self, hospital_id, username, role) ==
    LET key == user_key(username, role)
        refused ==
            \/ hospital_id \notin DOMAIN self.data
            \/ key \notin DOMAIN self.data[hospital_id].users
            \/ /\ self.current_user # None
               /\ self.current_user[1].username = username
               /\ self.current_user[1].role = role
    IN
    IF refused
    THEN [self EXCEPT !.ret = Return("delete_user", "False")]
    ELSE LET hospital ==
                 [self.data[hospital_id] EXCEPT !.users = DictRemove(@, key)]
         IN save_data(
              [self EXCEPT
                 !.data[hospital_id] =
                     IF role = "patient"
                     THEN delete_patient_cascade(hospital, username)
                     ELSE IF role = "clinician"
                     THEN delete_clinician_cascade(hospital, username)
                     ELSE delete_admin_cascade(hospital, username),
                 !.ret = Return("delete_user", "True")])

-----------------------------------------------------------------------------
(* modules/chat.py *)

Whitespace == {" "}

RECURSIVE lstrip(_)
lstrip(text) ==
    IF text # <<>> /\ Head(text) \in Whitespace THEN lstrip(Tail(text)) ELSE text

RECURSIVE rstrip(_)
rstrip(text) ==
    IF text # <<>> /\ text[Len(text)] \in Whitespace
    THEN rstrip(SubSeq(text, 1, Len(text) - 1)) ELSE text

\* (message or "").strip(); message is None or Some(text)
strip(message) == IF message = None THEN <<>> ELSE rstrip(lstrip(message[1]))

\* _ensure_chat_store: hospitals.setdefault(hospital_id, {...})
ensure_chat_store(self, hospital_id) ==
    IF hospital_id \in DOMAIN self.data THEN self
    ELSE [self EXCEPT !.data = DictSet(@, hospital_id, EmptyHospital)]

\* _ensure_general_thread
ensure_general_thread(self, hospital_id, patient_username) ==
    LET e == ensure_chat_store(self, hospital_id) IN
    IF patient_username \in DOMAIN e.data[hospital_id].chats.general THEN e
    ELSE [e EXCEPT !.data[hospital_id].chats.general =
                       DictSet(@, patient_username, <<>>)]

\* _ensure_direct_thread
ensure_direct_thread(self, hospital_id, patient_username, clinician_username) ==
    LET e == ensure_chat_store(self, hospital_id)
        f == IF patient_username \in DOMAIN e.data[hospital_id].chats.direct THEN e
             ELSE [e EXCEPT !.data[hospital_id].chats.direct =
                                DictSet(@, patient_username, <<>>)]
    IN IF clinician_username
             \in DOMAIN f.data[hospital_id].chats.direct[patient_username]
       THEN f
       ELSE [f EXCEPT !.data[hospital_id].chats.direct[patient_username] =
                          DictSet(@, clinician_username, <<>>)]

\* _build_message; now is datetime.utcnow() at second precision ("channel",
\* "patient_username" and "clinician_username" repeat the key of the thread)
build_message(sender_username, sender_role, text, message_id, now) ==
    [message_id |-> message_id, timestamp |-> now, sender |-> sender_username,
     sender_role |-> sender_role, text |-> text]

\* a call that builds a message takes the next generated id
took_id(self) == [self EXCEPT !.next_id = @ + 1]

add_general_message(self, hospital_id, patient_username, sender_username, sender_role, message, now) ==
    LET text == strip(message)
        e == ensure_general_thread(self, hospital_id, patient_username)
        entry == build_message(sender_username, sender_role, text,
                               uuid4(self.next_id + 1), now)
    IN
    IF text = <<>>
    THEN [self EXCEPT !.ret = Return("add_general_message", "None")]
    ELSE save_data(took_id(
           [e EXCEPT !.data[hospital_id].chats.general[patient_username] =
                         Append(@, entry),
                     !.ret = Return("add_general_message", "entry")]))

\* add_direct_message without the test on the assignment list
add_direct_message_unchecked(self, hospital_id, patient_username, clinician_username, sender_username, sender_role, message, now) ==
    LET text == strip(message)
        e == ensure_direct_thread(self, hospital_id, patient_username,
                                  clinician_username)
        entry == build_message(sender_username, sender_role, text,
                               uuid4(self.next_id + 1), now)
    IN
    IF text = <<>>
    THEN [self EXCEPT !.ret = Return("add_direct_message", "None")]
    ELSE save_data(took_id(
           [e EXCEPT
              !.data[hospital_id].chats.direct[patient_username][clinician_username] =
                  Append(@, entry),
              !.ret = Return("add_direct_message", "entry")]))

add_direct_message(self, hospital_id, patient_username, clinician_username, sender_username, sender_role, message, now) ==
    LET text == strip(message)
        assigned ==
            get_assigned_clinicians_for_patient(self, hospital_id, patient_username)
        e == ensure_direct_thread(self, hospital_id, patient_username,
                                  clinician_username)
        entry == build_message(sender_username, sender_role, text,
                               uuid4(self.next_id + 1), now)
    IN
    IF text = <<>>
    THEN [self EXCEPT !.ret = Return("add_direct_message", "None")]
    ELSE IF assigned # <<>> /\ clinician_username \notin Range(assigned)
    THEN [self EXCEPT !.ret = Return("add_direct_message", "None")]
    ELSE save_data(took_id(
           [e EXCEPT
              !.data[hospital_id].chats.direct[patient_username][clinician_username] =
                  Append(@, entry),
              !.ret = Return("add_direct_message", "entry")]))

RECURSIVE insert_by_timestamp(_, _)
\* x put behind every element whose timestamp is not larger
insert_by_timestamp(sorted, x) ==
    IF sorted = <<>> THEN <<x>>
    ELSE IF Head(sorted).timestamp <= x.timestamp
         THEN <<Head(sorted)>> \o insert_by_timestamp(Tail(sorted), x)
         ELSE <<x>> \o sorted

RECURSIVE sort_by_timestamp(_)
\* list.sort(key=timestamp): ascending and stable
sort_by_timestamp(thread) ==
    IF thread = <<>> THEN <<>>
    ELSE insert_by_timestamp(sort_by_timestamp(SubSeq(thread, 1, Len(thread) - 1)),
                             thread[Len(thread)])

\* thread[-limit:] for an int limit
tail_slice(thread, limit) ==
    LET n == Len(thread)
        start == IF limit > 0 THEN (IF n - limit > 0 THEN n - limit ELSE 0)
                 ELSE IF limit = 0 THEN 0
                 ELSE (IF -limit < n THEN -limit ELSE n)
    IN SubSeq(thread, start + 1, n)

\* what a message read returns for a stored thread; limit is None or Some(int)
read_thread(thread, limit) ==
    IF limit # None THEN tail_slice(sort_by_timestamp(thread), limit[1])
    ELSE sort_by_timestamp(thread)

\* get_general_messages: the thread is created when missing and nothing is
\* saved; ret.val is the returned list
get_general_messages(self, hospital_id, patient_username, limit) ==
    LET e == ensure_general_thread(self, hospital_id, patient_username) IN
    [e EXCEPT !.ret = Return("get_general_messages",
          read_thread(e.data[hospital_id].chats.general[patient_username], limit))]

\* get_direct_messages: the thread is created when missing and nothing is
\* saved; ret.val is the returned list
get_direct_messages(self, hospital_id, patient_username, clinician_username, limit) ==
    LET e == ensure_direct_thread(self, hospital_id, patient_username,
                                  clinician_username) IN
    [e EXCEPT !.ret = Return("get_direct_messages",
          read_thread(e.data[hospital_id].chats.direct[patient_username]
                          [clinician_username], limit))]

-----------------------------------------------------------------------------
(* The service after construction with no data file *)

Init ==
    /\ data = <<>>
    /\ current_user = None
    /\ disk = None
    /\ next_id = 0
    /\ ret = Return("__init__", "None")
    /\ peer = [data |-> <<>>, current_user |-> None, ret |-> Return("__init__", "None")]

-----------------------------------------------------------------------------
(* Actions: one call of a method on the service *)

RegisterUser(username, password, role, hospital_id, full_name, salt) ==
    Becomes(register_user(Self, username, password, role, hospital_id,
                          full_name, salt))

Login(username, password, role, hospital_id) ==
    Becomes(login(Self, username, password, role, hospital_id))

Logout == Becomes(logout(Self))

ApproveUser(username, role, hospital_id) ==
    Becomes(approve_user(Self, username, role, hospital_id))

DeleteUser(hospital_id, username, role) ==
    Becomes(delete_user(Self, hospital_id, username, role))

\* The caller builds the note, PatientNote(...) taking a fresh uuid and the
\* current time, and hands it to add_note.
AddNote(patient_id, author_id, pain, notes, source, hospital_id, is_private, hidden_from_patient, now) ==
    Becomes(add_note(took_id(Self),
                     PatientNote(patient_id, author_id, pain, notes, source,
                                 hospital_id, is_private, hidden_from_patient,
                                 None, None, uuid4(next_id + 1), now),
                     hospital_id))

GenerateAndStoreAiFeedback(note_id, hospital_id, feedback) ==
    Becomes(generate_and_store_ai_feedback(Self, note_id, hospital_id, feedback))

AssignClinicianToPatient(hospital_id, patient_username, clinician_username) ==
    Becomes(assign_clinician_to_patient(Self, hospital_id, patient_username,
                                        clinician_username))

UnassignClinicianFromPatient(hospital_id, patient_username, clinician_username) ==
    Becomes(unassign_clinician_from_patient(Self, hospital_id, patient_username,
                                            clinician_username))

AddGeneralMessage(hospital_id, patient_username, sender_username, sender_role, message, now) ==
    Becomes(add_general_message(Self, hospital_id, patient_username,
                                sender_username, sender_role, message, now))

AddDirectMessage(hospital_id, patient_username, clinician_username, sender_username, sender_role, message, now) ==
    Becomes(add_direct_message(Self, hospital_id, patient_username,
                               clinician_username, sender_username,
                               sender_role, message, now))

GetGeneralMessages(hospital_id, patient_username, limit) ==
    Becomes(get_general_messages(Self, hospital_id, patient_username, limit))

GetDirectMessages(hospital_id, patient_username, clinician_username, limit) ==
    Becomes(get_direct_messages(Self, hospital_id, patient_username,
                                clinician_username, limit))

\* The bounds of a specification, on the state a step leads to
UsersWithin(max_users) == Cardinality(all_user_keys(data)) <= max_users
IdsWithin(max_ids) == next_id <= max_ids


-----------------------------------------------------------------------------
(* modules/auth.py: notes and alerts by id, the data file *)

\* dict.update(updated_data): the fields updated_data names are replaced,
\* those the dict lacks are added
dict_update(d, updated_data) ==
    [k \in DOMAIN d \cup DOMAIN updated_data |->
        IF k \in DOMAIN updated_data THEN updated_data[k] ELSE d[k]]

\* update_note: the first note with the id is updated
update_note(self, hospital_id, note_id, updated_data) ==
    LET notes == hospital_or_empty(self, hospital_id).notes
        i == first_note_index(notes, note_id)
    IN
    IF i # 0
    THEN save_data(
           [self EXCEPT
              !.data[hospital_id].notes[i] = dict_update(@, updated_data),
              !.ret = Return("update_note", "True")])
    ELSE [self EXCEPT !.ret = Return("update_note", "False")]

\* delete_note returning False when no note has the id
delete_note_false_when_missing(self, note_id, hospital_id) ==
    IF /\ hospital_id \in DOMAIN self.data
       /\ \E n \in Range(self.data[hospital_id].notes) : n.note_id = note_id
    THEN save_data(
           [self EXCEPT
              !.data[hospital_id].notes =
                  SelectSeqBy(@, {n \in Range(@) : n.note_id # note_id}),
              !.ret = Return("delete_note", "True")])
    ELSE [self EXCEPT !.ret = Return("delete_note", "False")]

delete_note(self, note_id, hospital_id) ==
    IF hospital_id \in DOMAIN self.data
    THEN save_data(
           [self EXCEPT
              !.data[hospital_id].notes =
                  SelectSeqBy(@, {n \in Range(@) : n.note_id # note_id}),
              !.ret = Return("delete_note", "True")])
    ELSE [self EXCEPT !.ret = Return("delete_note", "False")]

\* get_pain_alerts: ret.val is the returned list
get_pain_alerts(self, hospital_id) ==
    [self EXCEPT !.ret = Return("get_pain_alerts",
                                hospital_or_empty(self, hospital_id).alerts)]

\* dismiss_alert emptying the alerts list
dismiss_alert_drops_every_alert(self, hospital_id, alert_id) ==
    IF hospital_id \in DOMAIN self.data
    THEN save_data(
           [self EXCEPT
              !.data[hospital_id].alerts = <<>>,
              !.ret = Return("dismiss_alert", "True")])
    ELSE [self EXCEPT !.ret = Return("dismiss_alert", "KeyError")]

\* dismiss_alert: self._data['hospitals'][hospital_id] is subscripted without
\* a test, which raises KeyError to the caller when the hospital has no
\* record, before anything is assigned or saved
dismiss_alert(self, hospital_id, alert_id) ==
    IF hospital_id \in DOMAIN self.data
    THEN save_data(
           [self EXCEPT
              !.data[hospital_id].alerts =
                  SelectSeqBy(@, {a \in Range(@) : a.alert_id # alert_id}),
              !.ret = Return("dismiss_alert", "True")])
    ELSE [self EXCEPT !.ret = Return("dismiss_alert", "KeyError")]

\* The data file is None (no file), Some(document) (the Fernet token of the
\* JSON text of a document) or Unreadable(kind): "empty" is a file of no
\* characters, "bad_token" one encryptor.decrypt refuses (any text that is not
\* a whole token of this key, a token cut short included), "bad_json" a token
\* whose plaintext json.loads refuses.
Unreadable(kind) == <<kind, "">>

FileKinds == {"empty", "bad_token", "bad_json"}

\* the except clause of _load_data without InvalidToken
CaughtOnLoad_without_InvalidToken == {"FileNotFoundError", "JSONDecodeError"}

\* the exceptions the except clause of _load_data catches
CaughtOnLoad == {"FileNotFoundError", "InvalidToken", "JSONDecodeError"}

\* what the try block of _load_data raises for the file, "" when it returns
load_error(file) ==
    IF file = None THEN "FileNotFoundError"
    ELSE IF Len(file) = 1 THEN ""
    ELSE CASE file[1] = "empty" -> ""
           [] file[1] = "bad_token" -> "InvalidToken"
           [] file[1] = "bad_json" -> "JSONDecodeError"

\* _load_data followed by _ensure_hospital_defaults, as __init__ runs them on
\* the data file: no file, an empty file and a caught exception give the
\* empty document; json.loads(decrypt(encrypt(json.dumps(document)))) gives
\* the document back, its keys being str and its values str, int, bool, None,
\* list and dict; every hospital record of it has its four keys already
load_data(file) == IF file = None \/ Len(file) # 1 THEN <<>> ELSE file[1]

\* CareLogService(): ret.val is the exception __init__ lets through, "None"
\* when it returns
__init__(self) ==
    [self EXCEPT
       !.current_user = None,
       !.data = load_data(self.disk),
       !.ret = Return("__init__",
                      IF load_error(self.disk) \in CaughtOnLoad \cup {""}
                      THEN "None" ELSE load_error(self.disk))]

\* the index of the first note with this id that has feedback (the loop goes
\* on past a note with the id and no feedback), 0 when there is none
first_feedback_index(notes, note_id) ==
    LET found == {i \in DOMAIN notes :
                     notes[i].note_id = note_id /\ notes[i].ai_feedback # None}
    IN IF found = {} THEN 0
       ELSE CHOOSE i \in found : \A j \in found : i <= j

approve_ai_feedback(self, note_id, hospital_id, edited_feedback_text) ==
    LET i == first_feedback_index(hospital_or_empty(self, hospital_id).notes, note_id) IN
    IF i # 0
    THEN save_data(
           [self EXCEPT
              !.data[hospital_id].notes[i].ai_feedback =
                  Some([text |-> edited_feedback_text, status |-> "approved"]),
              !.ret = Return("approve_ai_feedback", "True")])
    ELSE [self EXCEPT !.ret = Return("approve_ai_feedback", "False")]

\* reject_ai_feedback keeping the feedback object, marked rejected
reject_ai_feedback_marks_rejected(self, note_id, hospital_id) ==
    LET i == first_feedback_index(hospital_or_empty(self, hospital_id).notes, note_id) IN
    IF i # 0
    THEN save_data(
           [self EXCEPT
              !.data[hospital_id].notes[i].ai_feedback =
                  Some([text |-> @[1].text, status |-> "rejected"]),
              !.ret = Return("reject_ai_feedback", "True")])
    ELSE [self EXCEPT !.ret = Return("reject_ai_feedback", "False")]

\* del note['ai_feedback']: a note without the key is one whose ai_feedback
\* is None
reject_ai_feedback(self, note_id, hospital_id) ==
    LET i == first_feedback_index(hospital_or_empty(self, hospital_id).notes, note_id) IN
    IF i # 0
    THEN save_data(
           [self EXCEPT
              !.data[hospital_id].notes[i].ai_feedback = None,
              !.ret = Return("reject_ai_feedback", "True")])
    ELSE [self EXCEPT !.ret = Return("reject_ai_feedback", "False")]

\* update_user_profile: details is a dict that may hold full_name and
\* new_password (dob, sex, pronouns and bio are not modelled: no operation
\* reads them); salt is what os.urandom(16).hex() returns in this call
update_user_profile(self, hospital_id, username, role, details, salt) ==
    LET key == user_key(username, role)
        users == hospital_or_empty(self, hospital_id).users
        new_password == "new_password" \in DOMAIN details /\ details.new_password # <<>>
    IN
    IF key \notin DOMAIN users
    THEN [self EXCEPT !.ret = Return("update_user_profile", "False")]
    ELSE save_data(
           [self EXCEPT
              !.data[hospital_id].users[key] =
                  [@ EXCEPT
                     !.full_name = IF "full_name" \in DOMAIN details
                                   THEN details.full_name ELSE @,
                     !.salt = IF new_password THEN salt ELSE @,
                     !.password_hash =
                         IF new_password
                         THEN password_hash_of(salt, details.new_password) ELSE @],
              !.ret = Return("update_user_profile", "True")])

-----------------------------------------------------------------------------
(* modules/chat.py: clearing and listing *)

clear_general_messages(self, hospital_id, patient_username) ==
    LET e == ensure_chat_store(self, hospital_id) IN
    IF patient_username \in DOMAIN e.data[hospital_id].chats.general
    THEN save_data(
           [e EXCEPT !.data[hospital_id].chats.general[patient_username] = <<>>,
                     !.ret = Return("clear_general_messages", "True")])
    ELSE [e EXCEPT !.ret = Return("clear_general_messages", "False")]

\* direct.setdefault(patient_username, {}) comes before the test
clear_direct_messages(self, hospital_id, patient_username, clinician_username) ==
    LET e == ensure_chat_store(self, hospital_id)
        f == IF patient_username \in DOMAIN e.data[hospital_id].chats.direct THEN e
             ELSE [e EXCEPT !.data[hospital_id].chats.direct =
                                DictSet(@, patient_username, <<>>)]
    IN
    IF clinician_username \in DOMAIN f.data[hospital_id].chats.direct[patient_username]
    THEN save_data(
           [f EXCEPT
              !.data[hospital_id].chats.direct[patient_username][clinician_username] = <<>>,
              !.ret = Return("clear_direct_messages", "True")])
    ELSE [f EXCEPT !.ret = Return("clear_direct_messages", "False")]

\* list_general_patients: ret.val is the set of the usernames returned (the
\* list orders them by their last timestamp, ties in the insertion order of
\* the dict, which the model does not keep)
list_general_patients(self, hospital_id) ==
    LET e == ensure_chat_store(self, hospital_id) IN
    [e EXCEPT !.ret = Return("list_general_patients",
                             DOMAIN e.data[hospital_id].chats.general)]

\* list_direct_threads_for_clinician: ret.val is the set of the usernames
\* returned
list_direct_threads_for_clinician(self, hospital_id, clinician_username) ==
    LET e == ensure_chat_store(self, hospital_id)
        direct == e.data[hospital_id].chats.direct
    IN
    [e EXCEPT !.ret = Return("list_direct_threads_for_clinician",
                             {p \in DOMAIN direct : clinician_username \in DOMAIN direct[p]})]

-----------------------------------------------------------------------------
(* Actions: one call of one of these methods *)

UpdateNote(hospital_id, note_id, updated_data) ==
    Becomes(update_note(Self, hospital_id, note_id, updated_data))

DeleteNote(note_id, hospital_id) == Becomes(delete_note(Self, note_id, hospital_id))

GetPainAlerts(hospital_id) == Becomes(get_pain_alerts(Self, hospital_id))

DismissAlert(hospital_id, alert_id) ==
    Becomes(dismiss_alert(Self, hospital_id, alert_id))

ClearGeneralMessages(hospital_id, patient_username) ==
    Becomes(clear_general_messages(Self, hospital_id, patient_username))

ClearDirectMessages(hospital_id, patient_username, clinician_username) ==
    Becomes(clear_direct_messages(Self, hospital_id, patient_username,
                                  clinician_username))

ListGeneralPatients(hospital_id) == Becomes(list_general_patients(Self, hospital_id))

ListDirectThreadsForClinician(hospital_id, clinician_username) ==
    Becomes(list_direct_threads_for_clinician(Self, hospital_id, clinician_username))

ApproveAiFeedback(note_id, hospital_id, edited_feedback_text) ==
    Becomes(approve_ai_feedback(Self, note_id, hospital_id, edited_feedback_text))

RejectAiFeedback(note_id, hospital_id) == Becomes(reject_ai_feedback(Self, note_id, hospital_id))

UpdateUserProfile(hospital_id, username, role, details, salt) ==
    Becomes(update_user_profile(Self, hospital_id, username, role, details, salt))
-----------------------------------------------------------------------------
(* Registration, approval and login *)

Passwords == {PwValid, PwOther, PwShort, PwNoDigit, PwNoSpecial, PwNoUpper, PwNoLower}
RegPasswords == {PwValid, PwShort}
LoginPasswords == {PwValid, PwOther}
RegSalts == {"5a"}
RegNames == {"name"}

NextReg ==
    \/ \E u \in Usernames, pw \in RegPasswords, r \in Roles, h \in HospitalIds,
          fn \in RegNames, salt \in RegSalts :
           RegisterUser(u, pw, r, h, fn, salt) /\ UsersWithin(MaxRegUsers)'
    \/ \E u \in Usernames, pw \in LoginPasswords, r \in Roles, h \in HospitalIds :
           Login(u, pw, r, h)
    \/ Logout
    \/ \E u \in Usernames, r \in Roles, h \in HospitalIds : ApproveUser(u, r, h)
    \/ \E u \in Usernames, r \in Roles, h \in HospitalIds : DeleteUser(h, u, r)

SpecReg == Init /\ [][NextReg]_vars

\* The strength policy as the specification words it: at least 8 characters
\* with an upper case letter, a lower case letter, a digit and a symbol.
SymbolChars == {"!", "#"}
MeetsPasswordPolicy(pw) ==
    /\ Len(pw) >= 8
    /\ Range(pw) \cap UpperChars # {}
    /\ Range(pw) \cap LowerChars # {}
    /\ Range(pw) \cap DigitChars # {}
    /\ Range(pw) \cap SymbolChars # {}

\* C5: in every reachable state every rejected register_user call is
\* side-effect free.  A password that fails the policy returns
\* 'weak_password'; otherwise a non-admin role on a hospital id with no record
\* returns 'hospital_not_found'; otherwise a (username, role) already present
\* in the hospital returns False; and a call that returns one of the three
\* leaves the document (every hospital and every user record with its hash,
\* salt and status), the data file and the session as they were.
C5_RejectedRegisterIsSideEffectFree ==
    \A u \in Usernames, pw \in Passwords, r \in Roles, h \in HospitalIds,
       fn \in RegNames, salt \in RegSalts :
        LET post == register_user(Self, u, pw, r, h, fn, salt) IN
        /\ ~MeetsPasswordPolicy(pw) => post.ret.val = "weak_password"
        /\ (MeetsPasswordPolicy(pw) /\ h \notin DOMAIN data /\ r # "admin")
              => post.ret.val = "hospital_not_found"
        /\ (/\ MeetsPasswordPolicy(pw)
            /\ h \in DOMAIN data
            /\ user_key(u, r) \in DOMAIN data[h].users)
              => post.ret.val = "False"
        /\ post.ret.val \in {"weak_password", "hospital_not_found", "False"}
              => /\ post.data = data
                 /\ post.disk = disk
                 /\ post.current_user = current_user

\* a registration of an account that exists has just been refused
C5_Witness ==
    /\ ret = Return("register_user", "False")
    /\ \E h \in DOMAIN data : DOMAIN data[h].users # {}

\* C6: in every reachable state a successful register_user creates the
\* account with status 'pending' (and returns 'pending') exactly when the role
\* is admin or clinician and the hospital existed before the call; otherwise
\* the status is 'approved' and the call returns True; a hospital created by
\* the call has no notes, no alerts, empty general and direct chat maps and no
\* user but the new one.
C6_RegisterStatus ==
    \A u \in Usernames, pw \in Passwords, r \in Roles, h \in HospitalIds,
       fn \in RegNames, salt \in RegSalts :
        LET post == register_user(Self, u, pw, r, h, fn, salt)
            existed == h \in DOMAIN data
            key == user_key(u, r)
        IN
        post.ret.val \notin {"weak_password", "hospital_not_found", "False"} =>
            /\ post.ret.val \in {"True", "pending"}
            /\ h \in DOMAIN post.data
            /\ key \in DOMAIN post.data[h].users
            /\ post.data[h].users[key].status \in {"pending", "approved"}
            /\ post.data[h].users[key].status = "pending"
                  <=> (r \in {"admin", "clinician"} /\ existed)
            /\ post.ret.val = "pending" <=> post.data[h].users[key].status = "pending"
            /\ ~existed =>
                  /\ DOMAIN post.data[h].users = {key}
                  /\ post.data[h].notes = <<>>
                  /\ post.data[h].alerts = <<>>
                  /\ post.data[h].chats.general = <<>>
                  /\ post.data[h].chats.direct = <<>>

\* a clinician has just registered in an existing hospital and is pending
C6_Witness ==
    /\ ret = Return("register_user", "pending")
    /\ \E h \in DOMAIN data : \E k \in DOMAIN data[h].users :
          data[h].users[k].role = "clinician" /\ data[h].users[k].status = "pending"

\* C7: in every reachable state, login for an account whose status is
\* 'pending' returns 'pending' whatever the password and leaves the session
\* user alone; and once approve_user has been applied to an account, login
\* with the password its salted hash was made from returns the User and makes
\* it the session user, and login with any other password returns None and
\* leaves the session user alone.
C7_PendingCannotLoginUntilApproved ==
    \A h \in DOMAIN data : \A u \in Usernames, r \in Roles :
        user_key(u, r) \in DOMAIN data[h].users =>
            LET rec == data[h].users[user_key(u, r)]
                approved == approve_user(Self, u, r, h)
            IN
            /\ approved.ret.val = "True"
            /\ \A pw \in Passwords :
                  LET try == login(Self, u, pw, r, h)
                      later == login(approved, u, pw, r, h)
                      correct == rec.password_hash = <<"sha256", rec.salt, pw>>
                  IN
                  /\ rec.status = "pending" =>
                        try.ret.val = "pending" /\ try.current_user = current_user
                  /\ correct =>
                        /\ later.ret.val = "User"
                        /\ later.current_user = Some([username |-> u, role |-> r])
                  /\ ~correct =>
                        later.ret.val = "None" /\ later.current_user = current_user

\* a clinician account, pending from its registration, has been approved and
\* has just logged in
C7_Witness ==
    /\ ret = Return("login", "User")
    /\ current_user # None
    /\ current_user[1].role = "clinician"

-----------------------------------------------------------------------------
(* Who sees which notes, feedback and patients *)

AccessHospitals == {"H1"}
NoteText == <<"O", "k">>

\* what a patient enters (private or not) and what a clinician enters (shared
\* with the patient or not): source, is_private, hidden_from_patient
AccessNoteKinds ==
    {<<"patient", TRUE, FALSE>>, <<"patient", FALSE, FALSE>>,
     <<"clinician", FALSE, TRUE>>}

\* the accounts of the scenario: an admin, a clinician and two patients
AccessAccounts ==
    {<<"u1", "admin">>, <<"u2", "clinician">>, <<"u1", "patient">>, <<"u2", "patient">>}
AccessClinicians == {"u2"}
AccessNotePatients == {"u1"}

NextAccess ==
    \/ \E a \in AccessAccounts, h \in AccessHospitals :
           RegisterUser(a[1], PwValid, a[2], h, "name", "5a")
               /\ UsersWithin(MaxAccessUsers)'
    \/ \E c \in AccessClinicians, h \in AccessHospitals : ApproveUser(c, "clinician", h)
    \/ \E a \in AccessAccounts, h \in AccessHospitals : Login(a[1], PwValid, a[2], h)
    \/ Logout
    \/ \E p \in Usernames, c \in AccessClinicians, h \in AccessHospitals :
           AssignClinicianToPatient(h, p, c)
    \/ \E p \in Usernames, c \in AccessClinicians, h \in AccessHospitals :
           UnassignClinicianFromPatient(h, p, c)
    \/ \E p \in AccessNotePatients, k \in AccessNoteKinds, h \in AccessHospitals :
           /\ AddNote(p, IF k[1] = "patient" THEN p ELSE "u2", 5, NoteText, k[1], h,
                      k[2], k[3], 1)
           /\ IdsWithin(MaxAccessIds)'
    \/ \E i \in 1..MaxAccessIds, h \in AccessHospitals, fb \in {None, Some("advice")} :
           GenerateAndStoreAiFeedback(uuid4(i), h, fb)

SpecAccess == Init /\ [][NextAccess]_vars


\* the session users a login can set in this store: the approved accounts of
\* the hospital
Sessions(h) ==
    {Some([username |-> data[h].users[k].username, role |-> data[h].users[k].role]) :
        k \in {k \in DOMAIN data[h].users : data[h].users[k].status = "approved"}}

\* the service object with cu as its session user
CalledBy(cu) == [Self EXCEPT !.current_user = cu]

IsPrivatePatientNote(n) == n.source = "patient" /\ n.is_private
IsHiddenClinicianNote(n) == n.source = "clinician" /\ n.hidden_from_patient
HasPendingFeedback(n) == n.ai_feedback # None /\ n.ai_feedback[1].status = "pending"

AssignedTo(h, p) == Range(get_assigned_clinicians_for_patient(Self, h, p))

\* C1: in every reachable store get_notes_for_patient(h, p) returns to an
\* admin at least what it returns to a clinician assigned to p, and nothing to
\* a clinician not assigned to p; and whoever the session user is (nobody
\* included), a note of p with source 'patient' and is_private set is returned
\* only when the session user is patient p or an admin.
C1_NotesVisibilityChain ==
    \A h \in DOMAIN data : \A p \in Usernames :
        /\ \A a \in Sessions(h), c \in Sessions(h) :
              (a[1].role = "admin" /\ c[1].role = "clinician") =>
                  LET for_admin == get_notes_for_patient(CalledBy(a), h, p)
                      for_clinician == get_notes_for_patient(CalledBy(c), h, p)
                  IN
                  /\ Range(for_clinician) \subseteq Range(for_admin)
                  /\ c[1].username \notin AssignedTo(h, p) => for_clinician = <<>>
        /\ \A n \in Range(get_notes_for_patient(Self, h, p)) :
              IsPrivatePatientNote(n) =>
                  /\ current_user # None
                  /\ \/ current_user[1].role = "admin"
                     \/ current_user[1].role = "patient" /\ current_user[1].username = p

SearchTerms == {<<>>, <<"o">>, <<"K">>}

\* C2: in every reachable state where the session user has role patient,
\* neither get_notes_for_patient(h, p) nor search_notes(h, p, term) returns a
\* note with source 'clinician' and hidden_from_patient set, for any patient
\* p, the session user included.
C2_HiddenNotesNotShownToPatients ==
    (current_user # None /\ current_user[1].role = "patient") =>
        \A h \in DOMAIN data : \A p \in Usernames :
            /\ \A n \in Range(get_notes_for_patient(Self, h, p)) :
                  ~IsHiddenClinicianNote(n)
            /\ \A term \in SearchTerms :
                  \A n \in Range(search_notes(Self, h, p, term)) :
                      ~IsHiddenClinicianNote(n)

\* C3: in every reachable state get_pending_feedback(h) returns every note of
\* h with pending feedback when the session user is an admin, exactly the
\* pending-feedback notes of the patients the session user is assigned to
\* when it is a clinician, and the empty list when the session user is a
\* patient or there is none.
C3_PendingFeedbackByRole ==
    \A h \in DOMAIN data :
        LET got == get_pending_feedback(Self, h)
            pending == SelectSeqBy(data[h].notes,
                           {n \in Range(data[h].notes) : HasPendingFeedback(n)})
        IN
        IF current_user # None /\ current_user[1].role = "admin"
        THEN got = pending
        ELSE IF current_user # None /\ current_user[1].role = "clinician"
        THEN got = SelectSeqBy(pending,
                       {n \in Range(pending) :
                           current_user[1].username \in AssignedTo(h, n.patient_id)})
        ELSE got = <<>>

PatientRecords(h) ==
    {data[h].users[k] : k \in {k \in DOMAIN data[h].users :
                                   data[h].users[k].role = "patient"}}

\* C4: in every reachable state with a session user, get_all_patients(h)
\* returns every patient record of h to an admin, exactly the patient records
\* whose assigned_clinicians holds the session user's username to a
\* clinician, and to a patient no patient record but the session user's own.
C4_AllPatientsByRole ==
    current_user # None =>
        \A h \in DOMAIN data :
            LET got == get_all_patients(Self, h) IN
            IF current_user[1].role = "admin"
            THEN got = PatientRecords(h)
            ELSE IF current_user[1].role = "clinician"
            THEN got = {r \in PatientRecords(h) :
                           current_user[1].username \in Range(r.assigned_clinicians)}
            ELSE \A r \in got : r.username = current_user[1].username

-----------------------------------------------------------------------------
(* Notes and pain alerts *)

AlertHospitals == {"H1", "H2"}
AlertAdminHospitals == {"H1"}
AlertPatients == {"u1"}
PainLevels == {0, 9, 10}
Sources == {"patient", "clinician"}
Times == {1, 2}

NextAlerts ==
    \/ \E h \in AlertAdminHospitals : RegisterUser("u1", PwValid, "admin", h, "name", "5a")
    \/ \E p \in AlertPatients, pain \in PainLevels, s \in Sources, h \in AlertHospitals,
          now \in Times :
           /\ AddNote(p, p, pain, NoteText, s, h, FALSE, FALSE, now)
           /\ IdsWithin(MaxAlertIds)'

SpecAlerts == Init /\ [][NextAlerts]_vars

\* C8: in every reachable state, add_note on a hospital that has a record
\* appends the note once to the end of the notes; when the note has source
\* 'patient' and pain 10 it appends one alert whose alert_id is the id of the
\* note, whose patient_id and timestamp are those of the note and whose
\* status is 'new'; when the pain is below 10 the alerts stay as they were.
C8_SeverePainAlert ==
    \A h \in DOMAIN data :
        \A p \in Usernames, pain \in 0..SeverePain, s \in Sources, now \in Times :
            LET note == PatientNote(p, p, pain, NoteText, s, h, FALSE, FALSE,
                                    None, None, uuid4(next_id + 1), now)
                post == add_note(took_id(Self), note, h)
                notes == post.data[h].notes
                alerts == post.data[h].alerts
            IN
            /\ notes = Append(data[h].notes, note)
            /\ (s = "patient" /\ pain = 10) =>
                  /\ Len(alerts) = Len(data[h].alerts) + 1
                  /\ SubSeq(alerts, 1, Len(data[h].alerts)) = data[h].alerts
                  /\ alerts[Len(alerts)].alert_id = note.note_id
                  /\ alerts[Len(alerts)].patient_id = note.patient_id
                  /\ alerts[Len(alerts)].timestamp = note.timestamp
                  /\ alerts[Len(alerts)].status = "new"
            /\ pain < 10 => alerts = data[h].alerts

\* a patient note with pain 10 has just been added after a note without an
\* alert, and its alert is the only one
C8_Witness ==
    /\ ret = Return("add_note", "None")
    /\ \E h \in DOMAIN data :
          /\ Len(data[h].notes) = 2
          /\ data[h].notes[1].pain = 9
          /\ data[h].notes[2].pain = 10
          /\ data[h].notes[2].source = "patient"
          /\ Len(data[h].alerts) = 1
          /\ data[h].alerts[1].alert_id = data[h].notes[2].note_id

-----------------------------------------------------------------------------
(* Deleting an account *)

DeleteHospitals == {"H1"}

\* an admin, a clinician and two patients; the username u2 is taken by the
\* clinician and by a patient; u3 is a clinician username that notes, threads
\* and assignments name and that has no account
DeleteAccounts ==
    {<<"u1", "admin">>, <<"u2", "clinician">>, <<"u1", "patient">>, <<"u2", "patient">>}
DeleteClinicians == {"u2", "u3"}
DeletePatients == {"u1", "u2"}
DeleteLogins == {<<"u2", "patient">>}
DeleteAssignedPatients == {"u1"}
DeleteTargets == DeleteAccounts \ {<<"u1", "admin">>}

\* the direct threads of the scenario: patient, clinician
DeleteThreads == {<<"u1", "u2">>, <<"u1", "u3">>, <<"u2", "u3">>}

\* the notes of the scenario: what a patient enters about themselves, with
\* pain 10, and what a clinician enters about a patient
DeleteNotes ==
    {<<"u2", "u2", "patient", SeverePain>>}
        \cup {<<"u1", c, "clinician", 0>> : c \in DeleteClinicians}

NextDelete ==
    \/ \E a \in DeleteAccounts, h \in DeleteHospitals :
           RegisterUser(a[1], PwValid, a[2], h, "name", "5a")
    \/ \E a \in DeleteLogins, h \in DeleteHospitals : Login(a[1], PwValid, a[2], h)
    \/ \E p \in DeleteAssignedPatients, c \in DeleteClinicians, h \in DeleteHospitals :
           AssignClinicianToPatient(h, p, c)
    \/ \E n \in DeleteNotes, h \in DeleteHospitals :
           /\ AddNote(n[1], n[2], n[4], NoteText, n[3], h, FALSE, FALSE, 1)
           /\ IdsWithin(MaxDeleteIds)'
    \/ \E p \in DeletePatients, h \in DeleteHospitals :
           /\ AddGeneralMessage(h, p, p, "patient", Some(NoteText), 1)
           /\ IdsWithin(MaxDeleteIds)'
    \/ \E t \in DeleteThreads, h \in DeleteHospitals :
           /\ AddDirectMessage(h, t[1], t[2], t[2], "clinician", Some(NoteText), 1)
           /\ IdsWithin(MaxDeleteIds)'
    \/ \E a \in DeleteTargets, h \in DeleteHospitals : DeleteUser(h, a[1], a[2])

SpecDelete == Init /\ [][NextDelete]_vars

\* the account is the session user
IsSessionUser(username, role) ==
    /\ current_user # None
    /\ current_user[1].username = username
    /\ current_user[1].role = role

\* the list without the elements equal to x
Without(s, x) == SelectSeqBy(s, Range(s) \ {x})

\* C9: in every reachable state, delete_user of a clinician account c that
\* has a record and is not the session user returns True and removes the
\* record of c and no other record; every patient record keeps its fields
\* and loses c, and nothing else, from assigned_clinicians; every other
\* record is unchanged; the notes left are, in their order, the notes that
\* do not have both author_id c and source 'clinician'; under every patient
\* the direct thread keyed by c is gone and every other direct thread is
\* unchanged.
C9_DeleteClinicianCascade ==
    \A h \in DOMAIN data : \A c \in Usernames \cup DeleteClinicians :
        (/\ user_key(c, "clinician") \in DOMAIN data[h].users
         /\ ~IsSessionUser(c, "clinician")) =>
            LET before == data[h]
                post == delete_user(Self, h, c, "clinician")
                after == post.data[h]
                key == user_key(c, "clinician")
            IN
            /\ post.ret.val = "True"
            /\ DOMAIN after.users = DOMAIN before.users \ {key}
            /\ \A k \in DOMAIN after.users :
                  IF before.users[k].role = "patient"
                  THEN after.users[k] =
                         [before.users[k] EXCEPT
                             !.assigned_clinicians = Without(@, c)]
                  ELSE after.users[k] = before.users[k]
            /\ after.notes =
                  SelectSeqBy(before.notes,
                      {n \in Range(before.notes) :
                          ~(n.author_id = c /\ n.source = "clinician")})
            /\ DOMAIN after.chats.direct = DOMAIN before.chats.direct
            /\ \A p \in DOMAIN before.chats.direct :
                  /\ DOMAIN after.chats.direct[p] = DOMAIN before.chats.direct[p] \ {c}
                  /\ \A other \in DOMAIN after.chats.direct[p] :
                        after.chats.direct[p][other] = before.chats.direct[p][other]

\* a clinician has just been deleted: a patient is left with the key of its
\* direct threads and no thread under it, and with no assigned clinician
C9_Witness ==
    /\ ret = Return("delete_user", "True")
    /\ \E h \in DOMAIN data : \E p \in DOMAIN data[h].chats.direct :
          /\ DOMAIN data[h].chats.direct[p] = {}
          /\ user_key(p, "patient") \in DOMAIN data[h].users
          /\ data[h].users[user_key(p, "patient")].assigned_clinicians = <<>>

Limits == {None, Some(0), Some(1)}

\* C10: in every reachable state, delete_user of a patient account p that
\* has a record and is not the session user returns True and removes the
\* record of p and no other record, leaving the other records unchanged; the
\* notes left are, in their order, the notes whose patient_id is not p; the
\* general thread of p and the direct threads under p are gone and those of
\* every other patient are unchanged; after the call get_notes_for_patient(h,
\* p) returns the empty list whoever the session user is, and
\* get_general_messages(h, p) and get_direct_messages(h, p, c) return the
\* empty list for every clinician c and every limit.
C10_DeletePatientCascade ==
    \A h \in DOMAIN data : \A p \in Usernames :
        (/\ user_key(p, "patient") \in DOMAIN data[h].users
         /\ ~IsSessionUser(p, "patient")) =>
            LET before == data[h]
                post == delete_user(Self, h, p, "patient")
                after == post.data[h]
                key == user_key(p, "patient")
            IN
            /\ post.ret.val = "True"
            /\ DOMAIN after.users = DOMAIN before.users \ {key}
            /\ \A k \in DOMAIN after.users : after.users[k] = before.users[k]
            /\ after.notes =
                  SelectSeqBy(before.notes,
                      {n \in Range(before.notes) : n.patient_id # p})
            /\ DOMAIN after.chats.general = DOMAIN before.chats.general \ {p}
            /\ \A q \in DOMAIN after.chats.general :
                  after.chats.general[q] = before.chats.general[q]
            /\ DOMAIN after.chats.direct = DOMAIN before.chats.direct \ {p}
            /\ \A q \in DOMAIN after.chats.direct :
                  after.chats.direct[q] = before.chats.direct[q]
            /\ \A cu \in {None, current_user} \cup Sessions(h) :
                  get_notes_for_patient([post EXCEPT !.current_user = cu], h, p) = <<>>
            /\ \A limit \in Limits :
                  /\ get_general_messages(post, h, p, limit).ret.val = <<>>
                  /\ \A c \in Usernames \cup DeleteClinicians :
                        get_direct_messages(post, h, p, c, limit).ret.val = <<>>

\* a patient who had entered a note with pain 10 has just been deleted: the
\* alert of the note is there, the note and the record of the patient are not
C10_Witness ==
    /\ ret = Return("delete_user", "True")
    /\ \E h \in DOMAIN data : \E a \in Range(data[h].alerts) :
          /\ user_key(a.patient_id, "patient") \notin DOMAIN data[h].users
          /\ \A n \in Range(data[h].notes) : n.note_id # a.alert_id

-----------------------------------------------------------------------------
(* Deleting an account: alerts, refusals *)

\* C11: in every reachable state, after a delete_user of a patient account p
\* that returns True, get_pain_alerts(h) returns no alert whose patient_id is
\* p, and it still returns none once an account has been registered again
\* under the username of p.
C11_DeletePatientRemovesAlerts ==
    \A h \in DOMAIN data : \A p \in Usernames :
        LET post == delete_user(Self, h, p, "patient")
            again == register_user(post, p, PwValid, "patient", h, "name", "5a")
        IN
        post.ret.val = "True" =>
            /\ \A a \in Range(get_pain_alerts(post, h).ret.val) : a.patient_id # p
            /\ \A a \in Range(get_pain_alerts(again, h).ret.val) : a.patient_id # p

\* the accounts of the scenario: the admin who creates the hospital, a second
\* admin and a patient who has the username of the first
AdminAccounts == {<<"u1", "admin">>, <<"u2", "admin">>, <<"u1", "patient">>}
Admins == {"u1", "u2"}
AdminPatients == {"u1"}
AdminLogins == {<<"u1", "admin">>}

\* who writes in the general thread of the patient and in the direct thread
\* of the patient with clinician u3: username, role
AdminGeneralSenders == {<<"u1", "admin">>, <<"u2", "admin">>, <<"u3", "clinician">>}
AdminDirectSenders == {<<"u1", "admin">>, <<"u3", "clinician">>}

\* the clinician usernames assigned to the patient; u1 is also an admin's
AdminAssigned == {"u1", "u3"}

NextAdmin ==
    \/ \E a \in AdminAccounts, h \in DeleteHospitals :
           RegisterUser(a[1], PwValid, a[2], h, "name", "5a")
    \/ \E a \in AdminLogins, h \in DeleteHospitals : Login(a[1], PwValid, a[2], h)
    \/ \E p \in AdminPatients, c \in AdminAssigned, h \in DeleteHospitals :
           AssignClinicianToPatient(h, p, c)
    \/ \E p \in AdminPatients, h \in DeleteHospitals :
           /\ AddNote(p, "u1", 0, NoteText, "clinician", h, FALSE, FALSE, 1)
           /\ IdsWithin(MaxAdminIds)'
    \/ \E p \in AdminPatients, s \in AdminGeneralSenders, h \in DeleteHospitals :
           /\ AddGeneralMessage(h, p, s[1], s[2], Some(NoteText), 1)
           /\ IdsWithin(MaxAdminIds)'
    \/ \E p \in AdminPatients, s \in AdminDirectSenders, h \in DeleteHospitals :
           /\ AddDirectMessage(h, p, "u3", s[1], s[2], Some(NoteText), 1)
           /\ IdsWithin(MaxAdminIds)'
    \/ \E a \in Admins, h \in DeleteHospitals : DeleteUser(h, a, "admin")

SpecAdmin == Init /\ [][NextAdmin]_vars

\* C12: in every reachable state, delete_user of an admin account a that has
\* a record and is not the session user returns True and removes the record
\* of a and no other record, leaving the other records, with the
\* assigned_clinicians of the patients, unchanged; the notes are unchanged;
\* every general thread and every direct thread keeps its key and holds, in
\* their order, the messages whose sender is not a.
C12_DeleteAdminCascade ==
    \A h \in DOMAIN data : \A a \in Usernames :
        (/\ user_key(a, "admin") \in DOMAIN data[h].users
         /\ ~IsSessionUser(a, "admin")) =>
            LET before == data[h]
                post == delete_user(Self, h, a, "admin")
                after == post.data[h]
                kept(thread) == SelectSeqBy(thread, {m \in Range(thread) : m.sender # a})
            IN
            /\ post.ret.val = "True"
            /\ DOMAIN after.users = DOMAIN before.users \ {user_key(a, "admin")}
            /\ \A k \in DOMAIN after.users : after.users[k] = before.users[k]
            /\ after.notes = before.notes
            /\ DOMAIN after.chats.general = DOMAIN before.chats.general
            /\ \A p \in DOMAIN before.chats.general :
                  after.chats.general[p] = kept(before.chats.general[p])
            /\ DOMAIN after.chats.direct = DOMAIN before.chats.direct
            /\ \A p \in DOMAIN before.chats.direct :
                  /\ DOMAIN after.chats.direct[p] = DOMAIN before.chats.direct[p]
                  /\ \A c \in DOMAIN before.chats.direct[p] :
                        after.chats.direct[p][c] = kept(before.chats.direct[p][c])

\* an admin has just been deleted, and a general thread and a direct thread
\* that held nothing but messages of deleted admins are left with their keys
C12_Witness ==
    /\ ret = Return("delete_user", "True")
    /\ \E h \in DOMAIN data :
          /\ \E p \in DOMAIN data[h].chats.general : data[h].chats.general[p] = <<>>
          /\ \E p \in DOMAIN data[h].chats.direct :
                \E c \in DOMAIN data[h].chats.direct[p] :
                    data[h].chats.direct[p][c] = <<>>

\* C13: in every reachable state, delete_user returns False and leaves the
\* document (user records, notes, assignments, chats), the data file and the
\* session as they are when the target (username, role) is the session user,
\* when the hospital has no record, and when the hospital has no record of
\* the user.
C13_DeleteUserRefusals ==
    \A h \in HospitalIds, u \in Usernames \cup DeleteClinicians, r \in Roles :
        LET post == delete_user(Self, h, u, r) IN
        (\/ IsSessionUser(u, r)
         \/ h \notin DOMAIN data
         \/ user_key(u, r) \notin DOMAIN data[h].users) =>
            /\ post.ret.val = "False"
            /\ post.data = data
            /\ post.disk = disk
            /\ post.current_user = current_user

\* the session user, whose record is there with the record of every other
\* account that can be deleted, has just been refused its own deletion
C13_Witness ==
    /\ ret = Return("delete_user", "False")
    /\ current_user # None
    /\ \E h \in DOMAIN data :
          \A a \in DeleteTargets : user_key(a[1], a[2]) \in DOMAIN data[h].users
    /\ <<current_user[1].username, current_user[1].role>> \in DeleteTargets

-----------------------------------------------------------------------------
(* Assignments *)

\* an admin, a clinician and two patients; u3 is a clinician username with
\* no account
AssignAccounts ==
    {<<"u1", "admin">>, <<"u2", "clinician">>, <<"u1", "patient">>, <<"u2", "patient">>}
AssignTargets == AssignAccounts \ {<<"u1", "admin">>}
AssignPatients == {"u1", "u2"}
AssignClinicians == {"u2", "u3"}
AssignHospitals == {"H1"}

NextAssign ==
    \/ \E a \in AssignAccounts, h \in AssignHospitals :
           RegisterUser(a[1], PwValid, a[2], h, "name", "5a")
    \/ \E p \in AssignPatients, c \in AssignClinicians, h \in AssignHospitals :
           AssignClinicianToPatient(h, p, c)
    \/ \E p \in AssignPatients, c \in AssignClinicians, h \in AssignHospitals :
           UnassignClinicianFromPatient(h, p, c)
    \/ \E a \in AssignTargets, h \in AssignHospitals : DeleteUser(h, a[1], a[2])

SpecAssign == Init /\ [][NextAssign]_vars

NoDuplicates(s) == \A i, j \in DOMAIN s : s[i] = s[j] => i = j

Unchanged(post) ==
    /\ post.data = data
    /\ post.disk = disk
    /\ post.current_user = current_user

\* C14: in every state reachable by register_user,
\* assign_clinician_to_patient, unassign_clinician_from_patient and
\* delete_user calls, no assigned_clinicians list of a patient record holds
\* a username twice; assign_clinician_to_patient of a clinician the list
\* holds returns False and changes nothing, and
\* unassign_clinician_from_patient of a clinician the list does not hold
\* returns False and changes nothing.
C14_AssignmentsAreASet ==
    \A h \in DOMAIN data :
        /\ \A k \in DOMAIN data[h].users :
              data[h].users[k].role = "patient" =>
                  NoDuplicates(data[h].users[k].assigned_clinicians)
        /\ \A p \in AssignPatients, c \in AssignClinicians :
              user_key(p, "patient") \in DOMAIN data[h].users =>
                  LET assigned == Range(data[h].users[user_key(p, "patient")]
                                            .assigned_clinicians)
                      assign == assign_clinician_to_patient(Self, h, p, c)
                      unassign == unassign_clinician_from_patient(Self, h, p, c)
                  IN
                  /\ c \in assigned =>
                        assign.ret.val = "False" /\ Unchanged(assign)
                  /\ c \notin assigned =>
                        unassign.ret.val = "False" /\ Unchanged(unassign)

\* both patients have a record with both clinicians assigned, and an
\* assignment has just been refused
C14_Witness ==
    /\ ret = Return("assign_clinician_to_patient", "False")
    /\ \E h \in DOMAIN data : \A p \in AssignPatients :
          /\ user_key(p, "patient") \in DOMAIN data[h].users
          /\ Range(data[h].users[user_key(p, "patient")].assigned_clinicians)
                 = AssignClinicians

-----------------------------------------------------------------------------
(* Direct messages and the assignment list *)

DirectHospitals == {"H1"}
DirectAccounts == {<<"u1", "admin">>, <<"u1", "patient">>, <<"u2", "patient">>}
DirectPatients == {"u1", "u2"}
DirectAssignedPatients == {"u1"}
DirectClinicians == {"u2", "u3"}
Blank == <<" ">>
Messages == {None, Some(Blank), Some(NoteText)}

NextDirect ==
    \/ \E a \in DirectAccounts, h \in DirectHospitals :
           RegisterUser(a[1], PwValid, a[2], h, "name", "5a")
    \/ \E p \in DirectAssignedPatients, c \in DirectClinicians, h \in DirectHospitals :
           AssignClinicianToPatient(h, p, c)
    \/ \E p \in DirectAssignedPatients, c \in DirectClinicians, h \in DirectHospitals :
           UnassignClinicianFromPatient(h, p, c)
    \/ \E p \in DirectPatients, c \in DirectClinicians, h \in DirectHospitals :
           /\ AddDirectMessage(h, p, c, c, "clinician", Some(NoteText), 1)
           /\ IdsWithin(MaxDirectIds)'

SpecDirect == Init /\ [][NextDirect]_vars

\* the assignment list of the patient record, the empty list when the
\* hospital has no record of the patient
AssignedList(h, p) ==
    IF user_key(p, "patient") \in DOMAIN data[h].users
    THEN data[h].users[user_key(p, "patient")].assigned_clinicians
    ELSE <<>>

\* C15: in every reachable state, add_direct_message(h, p, c, ...) for a
\* patient p whose assignment list is not empty and does not hold c returns
\* None and leaves the document, with the keys of the direct threads, the
\* data file, the session and the generated ids as they are, whatever the
\* message.
C15_DirectMessageRejected ==
    \A h \in DOMAIN data : \A p \in DirectPatients, c \in DirectClinicians,
                              message \in Messages :
        (AssignedList(h, p) # <<>> /\ c \notin Range(AssignedList(h, p))) =>
            LET post == add_direct_message(Self, h, p, c, c, "clinician", message, 1) IN
            /\ post.ret.val = "None"
            /\ Unchanged(post)
            /\ post.next_id = next_id

\* a direct message has just been rejected (every message sent has a text):
\* the patient has an assigned clinician, and no thread with the other one
C15_Witness ==
    /\ ret = Return("add_direct_message", "None")
    /\ \E h \in DOMAIN data : \E p \in DirectPatients :
          /\ Len(AssignedList(h, p)) = 1
          /\ \A c \in DirectClinicians \ Range(AssignedList(h, p)) :
                \/ p \notin DOMAIN data[h].chats.direct
                \/ c \notin DOMAIN data[h].chats.direct[p]

\* C16: in every reachable state, add_direct_message(h, p, c, ...) for a
\* patient p with a record whose assignment list does not hold c (c was
\* never assigned, or was unassigned again, or the list is empty) returns
\* None and leaves the document and the data file as they are.
C16_DirectMessageOnlyWhenAssigned ==
    \A h \in DOMAIN data : \A p \in DirectPatients, c \in DirectClinicians :
        (/\ user_key(p, "patient") \in DOMAIN data[h].users
         /\ c \notin Range(AssignedList(h, p))) =>
            LET post == add_direct_message(Self, h, p, c, c, "clinician",
                                           Some(NoteText), 1) IN
            /\ post.ret.val = "None"
            /\ Unchanged(post)

-----------------------------------------------------------------------------
(* Reading a thread *)

ReadHospitals == {"H1"}
ReadPatients == {"u1"}
ReadClinicians == {"u2"}
ReadLimits == {None} \cup {Some(n) : n \in 0..MaxReadIds}

NextRead ==
    \/ \E h \in ReadHospitals : RegisterUser("u1", PwValid, "admin", h, "name", "5a")
    \/ \E p \in ReadPatients, now \in Times, h \in ReadHospitals :
           /\ AddGeneralMessage(h, p, p, "patient", Some(NoteText), now)
           /\ IdsWithin(MaxReadIds)'
    \/ \E p \in ReadPatients, c \in ReadClinicians, now \in Times, h \in ReadHospitals :
           /\ AddDirectMessage(h, p, c, c, "clinician", Some(NoteText), now)
           /\ IdsWithin(MaxReadIds)'
    \/ \E p \in ReadPatients, limit \in ReadLimits, h \in ReadHospitals :
           GetGeneralMessages(h, p, limit)
    \/ \E p \in ReadPatients, c \in ReadClinicians, limit \in ReadLimits,
          h \in ReadHospitals :
           GetDirectMessages(h, p, c, limit)

SpecRead == Init /\ [][NextRead]_vars

\* where the message stands in the stored thread (message ids are unique)
PositionIn(thread, m) == CHOOSE i \in DOMAIN thread : thread[i].message_id = m.message_id

\* sorted holds the messages of thread in ascending order of timestamp,
\* those with the same timestamp in the order of thread
IsStableSortOf(sorted, thread) ==
    /\ Len(sorted) = Len(thread)
    /\ Range(sorted) = Range(thread)
    /\ \A i, j \in DOMAIN sorted :
          i < j =>
              \/ sorted[i].timestamp < sorted[j].timestamp
              \/ /\ sorted[i].timestamp = sorted[j].timestamp
                 /\ PositionIn(thread, sorted[i]) < PositionIn(thread, sorted[j])

Min(a, b) == IF a <= b THEN a ELSE b

\* got is what a read with this limit is to return for the stored thread:
\* all of it sorted when there is no limit, the min(N, length) last messages
\* of that when the limit is N
IsReadOf(got, thread, limit) ==
    \E sorted \in {sort_by_timestamp(thread)} :
        /\ IsStableSortOf(sorted, thread)
        /\ IF limit = None THEN got = sorted
           ELSE /\ Len(got) = Min(limit[1], Len(thread))
                /\ got = SubSeq(sorted, Len(sorted) - Len(got) + 1, Len(sorted))

\* C17: in every reachable state, for every stored general thread and every
\* stored direct thread, get_general_messages and get_direct_messages leave
\* the document as it is and return the messages of the thread in ascending
\* order of timestamp, messages with the same timestamp in the order they
\* were appended; with a limit N >= 0 they return the min(N, length of the
\* thread) last messages of that order.
C17_ReadsAreSortedTails ==
    \A h \in DOMAIN data : \A limit \in ReadLimits :
        /\ \A p \in DOMAIN data[h].chats.general :
              LET post == get_general_messages(Self, h, p, limit) IN
              /\ post.data = data
              /\ IsReadOf(post.ret.val, data[h].chats.general[p], limit)
        /\ \A p \in DOMAIN data[h].chats.direct :
              \A c \in DOMAIN data[h].chats.direct[p] :
                  LET post == get_direct_messages(Self, h, p, c, limit) IN
                  /\ post.data = data
                  /\ IsReadOf(post.ret.val, data[h].chats.direct[p][c], limit)

-----------------------------------------------------------------------------
(* Hospital records and the data file *)

StoreHospitals == {"H1"}
StoreAdminHospitals == {"H1"}     \* the ids an admin registers on
StorePatients == {"u1"}
StoreClinicians == {"u2"}
StoreIds == {uuid4(k) : k \in 1..MaxStoreIds}
StoreUpdates == {[notes |-> <<"k">>]}

NextStore ==
    \/ \E h \in StoreAdminHospitals : RegisterUser("u1", PwValid, "admin", h, "name", "5a")
    \/ \E p \in StorePatients, h \in StoreHospitals :
           RegisterUser(p, PwValid, "patient", h, "name", "5a")
    \/ \E p \in StorePatients, h \in StoreHospitals :
           /\ AddNote(p, p, SeverePain, NoteText, "patient", h, FALSE, FALSE, 1)
           /\ IdsWithin(MaxStoreIds)'
    \/ \E h \in StoreHospitals, id \in StoreIds : UpdateNote(h, id, CHOOSE u \in StoreUpdates : TRUE)
    \/ \E h \in StoreHospitals, id \in StoreIds : DeleteNote(id, h)
    \/ \E h \in StoreHospitals : GetPainAlerts(h)
    \/ \E h \in StoreHospitals, id \in StoreIds : DismissAlert(h, id)
    \/ \E h \in StoreHospitals, p \in StorePatients : ApproveUser(p, "patient", h)
    \/ \E h \in StoreHospitals, p \in StorePatients : DeleteUser(h, p, "patient")
    \/ \E h \in StoreHospitals, p \in StorePatients :
           /\ AddGeneralMessage(h, p, p, "patient", Some(NoteText), 1)
           /\ IdsWithin(MaxStoreIds)'
    \/ \E h \in StoreHospitals, p \in StorePatients, c \in StoreClinicians :
           /\ AddDirectMessage(h, p, c, c, "clinician", Some(NoteText), 1)
           /\ IdsWithin(MaxStoreIds)'
    \/ \E h \in StoreHospitals, p \in StorePatients : GetGeneralMessages(h, p, None)
    \/ \E h \in StoreHospitals, p \in StorePatients, c \in StoreClinicians :
           GetDirectMessages(h, p, c, None)
    \/ \E h \in StoreHospitals, p \in StorePatients : ClearGeneralMessages(h, p)
    \/ \E h \in StoreHospitals, p \in StorePatients, c \in StoreClinicians :
           ClearDirectMessages(h, p, c)
    \/ \E h \in StoreHospitals : ListGeneralPatients(h)
    \/ \E h \in StoreHospitals, c \in StoreClinicians : ListDirectThreadsForClinician(h, c)

SpecStore == Init /\ [][NextStore]_vars

\* no admin has registered on the hospital id: in SpecStore no admin record
\* is ever deleted, so this is that the id has no admin record
NoAdminEverRegistered(h) ==
    \/ h \notin DOMAIN data
    \/ \A k \in DOMAIN data[h].users : data[h].users[k].role # "admin"

\* C18: every step keeps the hospital ids of the document, and a step that
\* adds a hospital id is a register_user call that leaves an admin record in
\* the new hospital record (no other operation of the service or of the chat
\* sub-service adds one); and in every state register_user of a patient or a
\* clinician on an id no admin ever registered returns 'hospital_not_found'.
C18_HospitalsOnlyByAdminRegistration ==
    [][/\ DOMAIN data \subseteq DOMAIN data'
       /\ \A h \in DOMAIN data' \ DOMAIN data :
             /\ ret'.op = "register_user"
             /\ \E k \in DOMAIN data'[h].users : data'[h].users[k].role = "admin"
       /\ \A h \in StoreHospitals, role \in {"patient", "clinician"} :
             NoAdminEverRegistered(h) =>
                 register_user(Self, "u3", PwValid, role, h, "name", "5a").ret.val
                     = "hospital_not_found"
      ]_vars

\* C19: in every reachable state, every operation that takes a hospital id
\* (register_user aside, which creates the record), called with an id that
\* has no record, returns an empty, false or none result and raises nothing:
\* add_note returns None, delete_user, delete_note, update_note,
\* approve_user, dismiss_alert, the assignment calls and
\* generate_and_store_ai_feedback return False, login returns None, and
\* get_pain_alerts and the other getters return an empty list.
C19_MissingHospitalIsQuiet ==
    \A h \in HospitalIds \ DOMAIN data :
        \A p \in StorePatients, c \in StoreClinicians, id \in StoreIds :
            /\ add_note(took_id(Self),
                        PatientNote(p, p, SeverePain, NoteText, "patient", h, FALSE,
                                    FALSE, None, None, uuid4(next_id + 1), 1),
                        h).ret.val = "None"
            /\ delete_user(Self, h, p, "patient").ret.val = "False"
            /\ delete_note(Self, id, h).ret.val = "False"
            /\ update_note(Self, h, id, CHOOSE u \in StoreUpdates : TRUE).ret.val = "False"
            /\ approve_user(Self, p, "patient", h).ret.val = "False"
            /\ get_pain_alerts(Self, h).ret.val = <<>>
            /\ dismiss_alert(Self, h, id).ret.val = "False"
            /\ login(Self, p, PwValid, "patient", h).ret.val = "None"
            /\ assign_clinician_to_patient(Self, h, p, c).ret.val = "False"
            /\ unassign_clinician_from_patient(Self, h, p, c).ret.val = "False"
            /\ generate_and_store_ai_feedback(Self, id, h, "fb").ret.val = "False"
            /\ get_notes_for_patient(Self, h, p) = <<>>
            /\ get_assigned_clinicians_for_patient(Self, h, p) = <<>>
            /\ get_pending_feedback(Self, h) = <<>>
            /\ search_notes(Self, h, p, <<>>) = <<>>
            /\ get_all_patients(Self, h) = {}
            /\ ~get_all_patients_raises(Self, h)

\* C20: in every reachable state in which the data file has been written,
\* the document a second service instance loads from the data file is the
\* in-memory document: the same hospital ids, and for each the same users,
\* notes, alerts and chat threads.
C20_FileIsTheDocument ==
    disk # None =>
        LET loaded == load_data(disk) IN
        /\ DOMAIN loaded = DOMAIN data
        /\ \A h \in DOMAIN data :
              /\ loaded[h].users = data[h].users
              /\ loaded[h].notes = data[h].notes
              /\ loaded[h].alerts = data[h].alerts
              /\ loaded[h].chats = data[h].chats

-----------------------------------------------------------------------------
(* _save_data step by step, and the process stopping in between *)

\* The position inside _save_data is kept in ret while the call that saves
\* has not returned: op is "_save_data", val.at the next step ("open",
\* "write", "close"), val.before the data file as the call found it,
\* val.returns what the call returns once the file is written.
Saving == ret.op = "_save_data"

\* A call whose atomic outcome is post: when it changed the document and
\* wrote it, the change is in memory and _save_data is entered; otherwise the
\* call has returned.
Enters(post) ==
    /\ ~Saving
    /\ IF post.data # data /\ post.disk = Some(post.data)
       THEN Becomes([post EXCEPT
                       !.disk = disk,
                       !.ret = Return("_save_data",
                                      [at |-> "open", before |-> disk,
                                       returns |-> post.ret])])
       ELSE Becomes(post)

\* open(DATA_FILE, 'w'): the file is created or cut to no characters
SaveOpen ==
    /\ Saving /\ ret.val.at = "open"
    /\ Becomes([Self EXCEPT !.disk = Unreadable("empty"), !.ret.val.at = "write"])

\* f.write(...): the buffer reaches the file in one piece or in several; a
\* first piece alone is a token cut short
SaveWritePart ==
    /\ Saving /\ ret.val.at = "write"
    /\ Becomes([Self EXCEPT !.disk = Unreadable("bad_token"), !.ret.val.at = "close"])

\* the rest of the write and the end of the with block; the call returns
SaveClose ==
    /\ Saving /\ ret.val.at \in {"write", "close"}
    /\ Becomes([save_data(Self) EXCEPT !.ret = ret.val.returns])

\* the process stops and a new one constructs the service
Crash == Becomes(__init__(Self))

CrashHospitals == {"H1"}
CrashPatients == {"u1"}

NextCrash ==
    \/ \E h \in CrashHospitals :
           Enters(register_user(Self, "u1", PwValid, "admin", h, "name", "5a"))
    \/ \E p \in CrashPatients, h \in CrashHospitals :
           Enters(register_user(Self, p, PwValid, "patient", h, "name", "5a"))
    \/ \E p \in CrashPatients, h \in CrashHospitals :
           /\ Enters(add_note(took_id(Self),
                              PatientNote(p, p, SeverePain, NoteText, "patient", h, FALSE,
                                          FALSE, None, None, uuid4(next_id + 1), 1),
                              h))
           /\ IdsWithin(MaxCrashIds)'
    \/ \E h \in CrashHospitals, id \in {uuid4(k) : k \in 1..MaxCrashIds} :
           Enters(dismiss_alert(Self, h, id))
    \/ SaveOpen
    \/ SaveWritePart
    \/ SaveClose
    \/ Crash

SpecCrash == Init /\ [][NextCrash]_vars

\* C21: in every state inside a mutating operation, _save_data included, the
\* document a new process loads from the data file is the document the file
\* held when the operation began or the document the operation leaves in
\* memory, never an empty or partial one in their place.
C21_CrashLeavesWholeDocument ==
    Saving =>
        __init__(Self).data \in {load_data(ret.val.before), data}

-----------------------------------------------------------------------------
(* Constructing the service on whatever the data file holds *)

\* a service object before __init__ has run, its data file being file
Unconstructed(file) ==
    [data |-> <<>>, current_user |-> None, disk |-> file, next_id |-> 0,
     ret |-> Return("__init__", "None")]

\* a document a service has written before
LoadDocument ==
    register_user(Unconstructed(None), "u1", PwValid, "admin", "H1", "name", "5a").data

LoadFiles == {None, Some(LoadDocument)} \cup {Unreadable(k) : k \in FileKinds}

InitLoad ==
    \E file \in LoadFiles :
        LET s == __init__(Unconstructed(file)) IN
        /\ data = s.data
        /\ current_user = s.current_user
        /\ disk = s.disk
        /\ next_id = s.next_id
        /\ ret = s.ret
        /\ peer = [data |-> s.data, current_user |-> s.current_user, ret |-> s.ret]

SpecLoad == InitLoad /\ [][NextCrash]_vars

IsUnreadable(file) == file = None \/ Len(file) # 1

\* C22: whenever the service has just been constructed on a data file that
\* is missing, empty, refused by decrypt or not JSON, the constructor has
\* raised nothing and the document is the empty store; constructing on any
\* such file in place of the present one does the same; and no step other
\* than a construction takes a hospital out of the document, so none puts
\* the empty store in the place of a loaded document.
C22_UnreadableFileStartsEmpty ==
    [][/\ (ret.op = "__init__" /\ IsUnreadable(disk)) =>
              (ret.val = "None" /\ data = <<>>)
       /\ \A file \in LoadFiles :
              IsUnreadable(file) =>
                  LET s == __init__([Self EXCEPT !.disk = file]) IN
                  s.ret.val = "None" /\ s.data = <<>>
       /\ ret'.op # "__init__" =>
              (DOMAIN data \subseteq DOMAIN data' /\ (data # <<>> => data' # <<>>))
      ]_vars

\* the service was constructed on a file a stopped write left cut short,
\* after the document had hospitals
C22_Witness ==
    /\ ret.op = "__init__"
    /\ disk = Unreadable("bad_token")
    /\ data = <<>>
    /\ next_id > 0

-----------------------------------------------------------------------------
(* Notes and their AI feedback *)

FeedbackHospitals == {"H1"}
FeedbackPatients == {"u1"}
FeedbackIds == {uuid4(k) : k \in 1..MaxFeedbackIds}
GeneratedTexts == {None, Some(""), Some("advice")}
EditedTexts == {"final"}

NextFeedback ==
    \/ \E h \in FeedbackHospitals : RegisterUser("u1", PwValid, "admin", h, "name", "5a")
    \/ \E h \in FeedbackHospitals : Login("u1", PwValid, "admin", h)
    \/ \E p \in FeedbackPatients, h \in FeedbackHospitals :
           /\ AddNote(p, p, 0, NoteText, "patient", h, FALSE, FALSE, 1)
           /\ IdsWithin(MaxFeedbackIds)'
    \/ \E id \in FeedbackIds, h \in FeedbackHospitals, fb \in GeneratedTexts :
           GenerateAndStoreAiFeedback(id, h, fb)
    \/ \E id \in FeedbackIds, h \in FeedbackHospitals, text \in EditedTexts :
           ApproveAiFeedback(id, h, text)
    \/ \E id \in FeedbackIds, h \in FeedbackHospitals : RejectAiFeedback(id, h)
    \/ \E id \in FeedbackIds, h \in FeedbackHospitals : DeleteNote(id, h)

SpecFeedback == Init /\ [][NextFeedback]_vars

NoNoteHas(h, id) == \A n \in Range(data[h].notes) : n.note_id # id

\* C23, as the code has it: in every reachable state, on a hospital that has
\* a record and with a note id that no note has, delete_note returns True
\* and leaves the document unchanged, while approve_ai_feedback returns False
\* and leaves the document unchanged; and a second delete_note with the same
\* id changes nothing after the first, whatever the id.
C23_NotFoundDeleteTrueApproveFalse ==
    \A h \in DOMAIN data : \A id \in FeedbackIds :
        LET d == delete_note(Self, id, h) IN
        /\ delete_note(d, id, h).data = d.data
        /\ delete_note(d, id, h).ret.val = "True"
        /\ NoNoteHas(h, id) =>
              /\ d.ret.val = "True"
              /\ d.data = data
              /\ \A text \in EditedTexts :
                    LET a == approve_ai_feedback(Self, id, h, text) IN
                    a.ret.val = "False" /\ a.data = data

\* C23, as stated: in every reachable state, on a hospital that has a record
\* and with a note id that no note has, delete_note and approve_ai_feedback
\* each return True and leave the notes unchanged.
C23_NotFoundIsSuccess ==
    \A h \in DOMAIN data : \A id \in FeedbackIds :
        NoNoteHas(h, id) =>
            /\ delete_note(Self, id, h).ret.val = "True"
            /\ delete_note(Self, id, h).data[h].notes = data[h].notes
            /\ \A text \in EditedTexts :
                  LET a == approve_ai_feedback(Self, id, h, text) IN
                  a.ret.val = "True" /\ a.data[h].notes = data[h].notes

\* delete_note has returned True although every note ever added is still
\* there: the id it was given is one no note had
C23_Witness ==
    /\ ret = Return("delete_note", "True")
    /\ next_id = 1
    /\ \E h \in DOMAIN data : Len(data[h].notes) = 1 /\ NoNoteHas(h, uuid4(2))

\* the notes with the feedback of the note that has the id replaced
WithFeedback(notes, id, feedback) ==
    [k \in DOMAIN notes |->
        IF notes[k].note_id = id THEN [notes[k] EXCEPT !.ai_feedback = feedback]
        ELSE notes[k]]

HasNote(h, id) == \E n \in Range(data[h].notes) : n.note_id = id
HasFeedback(h, id) == \E n \in Range(data[h].notes) : n.note_id = id /\ n.ai_feedback # None
IsNothing(fb) == fb = None \/ fb = Some("")

\* C24: in every reachable state, for every hospital with a record and every
\* note id: generate_and_store_ai_feedback on a note that exists, the
\* collaborator returning a text, stores that text with status 'pending' on
\* the note, saves and returns True; when the collaborator returns nothing
\* it returns False and changes nothing; approve_ai_feedback on a note that
\* has feedback puts the edited text with status 'approved' in its place and
\* returns True; reject_ai_feedback on a note that has feedback removes the
\* feedback and returns True; approve and reject return False and change
\* nothing when no note has the id or the note has no feedback; and for an
\* admin get_pending_feedback holds exactly the notes whose feedback has
\* status 'pending'.
C24_FeedbackLifecycle ==
    \A h \in DOMAIN data :
        LET notes == data[h].notes
            Stored(post, feedback, id) ==
                /\ post.ret.val = "True"
                /\ post.data = [data EXCEPT ![h].notes = WithFeedback(notes, id, feedback)]
                /\ post.disk = Some(post.data)
            Refused(post) == post.ret.val = "False" /\ Unchanged(post)
        IN
        /\ \A id \in FeedbackIds :
              /\ \A fb \in GeneratedTexts :
                    LET post == generate_and_store_ai_feedback(Self, id, h, fb) IN
                    /\ (HasNote(h, id) /\ ~IsNothing(fb)) =>
                           Stored(post, Some([text |-> fb[1], status |-> "pending"]), id)
                    /\ IsNothing(fb) => Refused(post)
              /\ \A text \in EditedTexts :
                    LET post == approve_ai_feedback(Self, id, h, text) IN
                    IF HasFeedback(h, id)
                    THEN Stored(post, Some([text |-> text, status |-> "approved"]), id)
                    ELSE Refused(post)
              /\ LET post == reject_ai_feedback(Self, id, h) IN
                 IF HasFeedback(h, id) THEN Stored(post, None, id) ELSE Refused(post)
        /\ LET pending == get_pending_feedback(
                              CalledBy(Some([username |-> "u1", role |-> "admin"])), h)
           IN
           /\ \A n \in Range(notes) : n \in Range(pending) <=> HasPendingFeedback(n)
           /\ Range(pending) \subseteq Range(notes)

\* a note's feedback has been generated and then approved, another note's
\* generated and then rejected
C24_Witness ==
    \E h \in DOMAIN data :
        /\ ret = Return("reject_ai_feedback", "True")
        /\ \E n \in Range(data[h].notes) :
               n.ai_feedback = Some([text |-> "final", status |-> "approved"])
        /\ \E n \in Range(data[h].notes) : n.ai_feedback = None

-----------------------------------------------------------------------------
(* Two hospitals holding the same usernames *)

TenantHospitals == {"H1", "H2"}
TenantPatients == {"u1"}
TenantClinicians == {"u2"}
TenantAccounts == {<<"u1", "admin">>, <<"u1", "patient">>, <<"u2", "clinician">>}
TenantIds == {uuid4(k) : k \in 1..MaxTenantIds}
TenantDetails == {[full_name |-> "renamed"], [new_password |-> PwOther]}

\* every account registers under a full name that tells its hospital
NextTenant ==
    \/ \E a \in TenantAccounts, h \in TenantHospitals :
           RegisterUser(a[1], PwValid, a[2], h, h, "5a")
    \/ \E p \in TenantPatients, c \in TenantClinicians, h \in TenantHospitals :
           AssignClinicianToPatient(h, p, c)
    \/ \E p \in TenantPatients, h \in TenantHospitals :
           /\ AddNote(p, p, SeverePain, NoteText, "patient", h, FALSE, FALSE, 1)
           /\ IdsWithin(MaxTenantIds)'
    \/ \E p \in TenantPatients, h \in TenantHospitals :
           /\ AddGeneralMessage(h, p, p, "patient", Some(NoteText), 1)
           /\ IdsWithin(MaxTenantIds)'
    \/ \E a \in TenantAccounts \ {<<"u1", "admin">>}, h \in TenantHospitals :
           DeleteUser(h, a[1], a[2])

SpecTenant == Init /\ [][NextTenant]_vars

\* the call on hospital h left every other hospital as it was and added no
\* hospital but h
LeavesOthers(post, h) ==
    /\ DOMAIN post.data \subseteq DOMAIN data \cup {h}
    /\ \A g \in DOMAIN data \ {h} : g \in DOMAIN post.data /\ post.data[g] = data[g]

\* the service object holding the record of h alone, cu being its session user
Alone(h, cu) ==
    [Self EXCEPT !.data = [g \in DOMAIN data \cap {h} |-> data[g]],
                 !.current_user = cu]

TenantSessions == {None} \cup UNION {Sessions(g) : g \in DOMAIN data}

\* C25: in every reachable state, for every hospital id h, every operation
\* called with h (registration, approval, profile update, assignment, notes,
\* alerts, feedback, chat, user deletion) leaves the record of every other
\* hospital unchanged and adds no other hospital; and every query on h, by
\* any session user, returns what it returns when the document holds the
\* record of h alone, the notes being notes filed under h and the alerts the
\* alerts list of h.
C25_HospitalsAreIsolated ==
    \A h \in TenantHospitals :
        /\ \A a \in TenantAccounts :
              /\ LeavesOthers(register_user(Self, a[1], PwValid, a[2], h, h, "c3"), h)
              /\ LeavesOthers(approve_user(Self, a[1], a[2], h), h)
              /\ LeavesOthers(delete_user(Self, h, a[1], a[2]), h)
              /\ \A d \in TenantDetails :
                    LeavesOthers(update_user_profile(Self, h, a[1], a[2], d, "c3"), h)
        /\ \A p \in TenantPatients :
              /\ LeavesOthers(add_note(took_id(Self),
                                  PatientNote(p, p, SeverePain, NoteText, "patient", h, FALSE,
                                              FALSE, None, None, uuid4(next_id + 1), 1),
                                  h), h)
              /\ LeavesOthers(add_general_message(Self, h, p, p, "patient", Some(NoteText), 1), h)
              /\ LeavesOthers(get_general_messages(Self, h, p, None), h)
              /\ LeavesOthers(clear_general_messages(Self, h, p), h)
              /\ LeavesOthers(list_general_patients(Self, h), h)
              /\ \A c \in TenantClinicians :
                    /\ LeavesOthers(assign_clinician_to_patient(Self, h, p, c), h)
                    /\ LeavesOthers(unassign_clinician_from_patient(Self, h, p, c), h)
                    /\ LeavesOthers(add_direct_message(Self, h, p, c, c, "clinician",
                                                       Some(NoteText), 1), h)
                    /\ LeavesOthers(get_direct_messages(Self, h, p, c, None), h)
                    /\ LeavesOthers(clear_direct_messages(Self, h, p, c), h)
                    /\ LeavesOthers(list_direct_threads_for_clinician(Self, h, c), h)
        /\ \A id \in TenantIds :
              /\ LeavesOthers(update_note(Self, h, id, [notes |-> <<"k">>]), h)
              /\ LeavesOthers(delete_note(Self, id, h), h)
              /\ LeavesOthers(dismiss_alert(Self, h, id), h)
              /\ LeavesOthers(generate_and_store_ai_feedback(Self, id, h, Some("advice")), h)
              /\ LeavesOthers(approve_ai_feedback(Self, id, h, "final"), h)
              /\ LeavesOthers(reject_ai_feedback(Self, id, h), h)
        /\ get_pain_alerts(Self, h).ret.val = get_pain_alerts(Alone(h, current_user), h).ret.val
        /\ \A cu \in TenantSessions :
              /\ get_all_patients(CalledBy(cu), h) = get_all_patients(Alone(h, cu), h)
              /\ get_pending_feedback(CalledBy(cu), h) = get_pending_feedback(Alone(h, cu), h)
              /\ \A p \in TenantPatients :
                    /\ get_notes_for_patient(CalledBy(cu), h, p)
                           = get_notes_for_patient(Alone(h, cu), h, p)
                    /\ search_notes(CalledBy(cu), h, p, <<>>) = search_notes(Alone(h, cu), h, p, <<>>)
                    /\ get_assigned_clinicians_for_patient(CalledBy(cu), h, p)
                           = get_assigned_clinicians_for_patient(Alone(h, cu), h, p)
                    /\ \A n \in Range(get_notes_for_patient(CalledBy(cu), h, p)) :
                           n.hospital_id = h
                    /\ get_general_messages(CalledBy(cu), h, p, None).ret.val
                           = get_general_messages(Alone(h, cu), h, p, None).ret.val
        /\ get_pain_alerts(Self, h).ret.val = hospital_or_empty(Self, h).alerts

\* both hospitals hold the patient u1 with a note and its alert, and the last
\* call deleted an account in one of them
C25_Witness ==
    /\ DOMAIN data = TenantHospitals
    /\ ret = Return("delete_user", "True")
    /\ \E h \in TenantHospitals :
          /\ data[h].notes # <<>> /\ data[h].alerts # <<>>
          /\ "u1_patient" \in DOMAIN data[h].users
          /\ \E g \in TenantHospitals \ {h} : "u1_patient" \notin DOMAIN data[g].users

-----------------------------------------------------------------------------
(* The life of a pain alert *)

DismissHospitals == {"H1"}
DismissPatients == {"u1"}
DismissClinicians == {"u2"}
DismissAccounts == {<<"u1", "admin">>, <<"u1", "patient">>}
DismissIds == {uuid4(k) : k \in 1..MaxDismissIds}

NextDismiss ==
    \/ \E a \in DismissAccounts, h \in DismissHospitals :
           RegisterUser(a[1], PwValid, a[2], h, "name", "5a")
    \/ \E p \in DismissPatients, h \in DismissHospitals :
           /\ AddNote(p, p, SeverePain, NoteText, "patient", h, FALSE, FALSE, 1)
           /\ IdsWithin(MaxDismissIds)'
    \/ \E id \in DismissIds, h \in DismissHospitals : UpdateNote(h, id, [pain |-> 0])
    \/ \E id \in DismissIds, h \in DismissHospitals : DeleteNote(id, h)
    \/ \E a \in DismissAccounts \ {<<"u1", "admin">>}, h \in DismissHospitals :
           DeleteUser(h, a[1], a[2])
    \/ \E p \in DismissPatients, h \in DismissHospitals :
           /\ AddGeneralMessage(h, p, p, "patient", Some(NoteText), 1)
           /\ IdsWithin(MaxDismissIds)'
    \/ \E id \in DismissIds, h \in DismissHospitals :
           GenerateAndStoreAiFeedback(id, h, Some("advice"))
    \/ \E id \in DismissIds, h \in DismissHospitals : DismissAlert(h, id)

SpecDismiss == Init /\ [][NextDismiss]_vars

\* the alerts of h after the call are those before it
KeepsAlerts(post, h) == get_pain_alerts(post, h).ret.val = data[h].alerts

-----------------------------------------------------------------------------
(* Passwords set at registration and by a profile update *)

PolicyHospitals == {"H1"}
PolicyAccounts == {<<"u1", "admin">>, <<"u1", "patient">>}
PolicyPasswords == {PwValid, PwOther, PwShort, PwNoDigit, PwNoSpecial, PwNoUpper, PwNoLower}
PolicyDetails ==
    {[full_name |-> "renamed"], [new_password |-> <<>>]}
        \cup {[new_password |-> pw] : pw \in {PwOther, PwShort}}

NextPolicy ==
    \/ \E a \in PolicyAccounts, pw \in {PwValid, PwNoUpper}, h \in PolicyHospitals :
           RegisterUser(a[1], pw, a[2], h, "name", "5a")
    \/ \E a \in PolicyAccounts, d \in PolicyDetails, salt \in Salts, h \in PolicyHospitals :
           UpdateUserProfile(h, a[1], a[2], d, salt)
    \/ \E a \in PolicyAccounts, pw \in {PwValid, PwOther, PwShort}, h \in PolicyHospitals :
           Login(a[1], pw, a[2], h)

SpecPolicy == Init /\ [][NextPolicy]_vars

\* the password authenticates the account: its salted hash is the stored one
Authenticates(user_data, password) ==
    user_data.password_hash = password_hash_of(user_data.salt, password)

\* C27: in every state reachable by register_user, update_user_profile and
\* login, every password that authenticates an account meets the strength
\* policy (at least 8 characters, with an upper case letter, a lower case
\* letter, a digit and a symbol), and update_user_profile called with a
\* new_password that fails the policy leaves the stored salt and hash of the
\* account as they were.
C27_StoredPasswordsMeetPolicy ==
    \A h \in DOMAIN data : \A k \in DOMAIN data[h].users :
        /\ \A pw \in PolicyPasswords :
              Authenticates(data[h].users[k], pw) => MeetsPasswordPolicy(pw)
        /\ \A pw \in PolicyPasswords, salt \in Salts :
              ~MeetsPasswordPolicy(pw) =>
                  LET post == update_user_profile(Self, h, data[h].users[k].username,
                                                  data[h].users[k].role,
                                                  [new_password |-> pw], salt)
                  IN
                  /\ post.data[h].users[k].salt = data[h].users[k].salt
                  /\ post.data[h].users[k].password_hash = data[h].users[k].password_hash

-----------------------------------------------------------------------------
(* One username held under several roles *)

SharedHospitals == {"H1"}
SharedAccounts ==
    {<<"u1", "admin">>, <<"u2", "patient">>, <<"u2", "clinician">>, <<"u2", "admin">>}
SharedPatients == {"u2"}
SharedTargets == {<<"u2", "clinician">>, <<"u2", "admin">>}

NextShared ==
    \/ \E a \in SharedAccounts, h \in SharedHospitals :
           RegisterUser(a[1], PwValid, a[2], h, "name", "5a")
    \/ \E p \in SharedPatients, a \in SharedAccounts, h \in SharedHospitals :
           /\ AddGeneralMessage(h, p, a[1], a[2], Some(NoteText), 1)
           /\ IdsWithin(MaxSharedIds)'
    \/ \E a \in SharedTargets, h \in SharedHospitals : DeleteUser(h, a[1], a[2])

SpecShared == Init /\ [][NextShared]_vars

SentBy(m, username, role) == m.sender = username /\ m.sender_role = role

\* C28: in every reachable state, when delete_user deletes a clinician or an
\* admin account (username u, role r), every general thread there was is
\* still there and holds, in their order, the messages it held that were not
\* sent by the account (u, r): a message of another account is left in
\* place, one of the account that holds the username u under another role
\* included.
C28_CascadeStripsOnlyTheAccount ==
    \A h \in DOMAIN data : \A a \in SharedTargets :
        LET post == delete_user(Self, h, a[1], a[2])
            general == data[h].chats.general
        IN
        post.ret.val = "True" =>
            /\ DOMAIN post.data[h].chats.general = DOMAIN general
            /\ \A p \in DOMAIN general :
                  post.data[h].chats.general[p]
                      = SelectSeq(general[p], LAMBDA m : ~SentBy(m, a[1], a[2]))

-----------------------------------------------------------------------------
(* The session user *)

SessionHospitals == {"H1", "H2"}
SessionAccounts == {<<"u1", "admin">>, <<"u2", "clinician">>}
SessionPasswords == {PwValid, PwOther}
SessionDetails == {[new_password |-> PwOther]}

NextSession ==
    \/ \E a \in SessionAccounts, h \in SessionHospitals :
           RegisterUser(a[1], PwValid, a[2], h, "name", "5a")
    \/ \E a \in SessionAccounts, h \in SessionHospitals : ApproveUser(a[1], a[2], h)
    \/ \E a \in SessionAccounts, pw \in SessionPasswords, h \in SessionHospitals :
           Login(a[1], pw, a[2], h)
    \/ Logout
    \/ \E a \in SessionAccounts, d \in SessionDetails, h \in SessionHospitals :
           UpdateUserProfile(h, a[1], a[2], d, "5a")
    \/ \E a \in SessionAccounts, h \in SessionHospitals : DeleteUser(h, a[1], a[2])

SpecSession == Init /\ [][NextSession]_vars

\* the document d holds, in hospital h, an approved record of the session
\* user cu (Some(user))
HoldsApproved(d, h, cu) ==
    /\ h \in DOMAIN d
    /\ user_key(cu[1].username, cu[1].role) \in DOMAIN d[h].users
    /\ d[h].users[user_key(cu[1].username, cu[1].role)].status = "approved"

\* C29: in every behaviour of login, logout, register_user, approve_user,
\* update_user_profile and delete_user: a login that succeeds on hospital h
\* sets the session user to an account that has an approved record in h, and
\* a login that fails (pending, error, none) leaves the session user as it
\* was; only a successful login sets or changes the session user; while the
\* session user stays, every hospital that holds an approved record of it
\* goes on holding one; logout clears the session user; so whenever a
\* session user is set, an approved record with its username and role exists.
C29_SessionUserHasApprovedRecord ==
    [][/\ \A a \in SessionAccounts, pw \in SessionPasswords, h \in SessionHospitals :
             LET post == login(Self, a[1], pw, a[2], h) IN
             IF post.ret.val = "User"
             THEN /\ post.current_user = Some([username |-> a[1], role |-> a[2]])
                  /\ HoldsApproved(post.data, h, post.current_user)
             ELSE post.current_user = current_user
       /\ (current_user' # None /\ current_user' # current_user) =>
              ret' = Return("login", "User")
       /\ (ret'.op = "login" /\ ret'.val # "User") => current_user' = current_user
       /\ \A h \in SessionHospitals :
              (current_user # None /\ current_user' = current_user
                   /\ HoldsApproved(data, h, current_user)) =>
                  HoldsApproved(data', h, current_user')
       /\ ret'.op = "logout" => current_user' = None
       /\ current_user' # None =>
              \E h \in SessionHospitals : HoldsApproved(data', h, current_user')
      ]_vars

\* a login has just failed on a pending account while the admin is signed
\* in, and the admin is still signed in and has its approved record
C29_Witness ==
    /\ current_user = Some([username |-> "u1", role |-> "admin"])
    /\ ret = Return("login", "pending")
    /\ \E h \in DOMAIN data : HoldsApproved(data, h, current_user)

-----------------------------------------------------------------------------
(* Two service objects on one data file *)

\* the second service object, with the data file and the ids it shares
Peer ==
    [data |-> peer.data, current_user |-> peer.current_user, disk |-> disk,
     next_id |-> next_id, ret |-> peer.ret]

\* the call leaves the second service object as post
PeerBecomes(post) ==
    /\ peer' = [data |-> post.data, current_user |-> post.current_user, ret |-> post.ret]
    /\ disk' = post.disk
    /\ next_id' = post.next_id
    /\ UNCHANGED <<data, current_user, ret>>

TwoHospitals == {"H1"}
TwoAccounts == {<<"u1", "admin">>, <<"u1", "patient">>, <<"u2", "patient">>}
TwoPatients == {"u1", "u2"}

NextTwo ==
    \/ \E a \in TwoAccounts, h \in TwoHospitals :
           RegisterUser(a[1], PwValid, a[2], h, "name", "5a")
    \/ \E p \in TwoPatients, h \in TwoHospitals :
           /\ AddNote(p, p, 0, NoteText, "patient", h, FALSE, FALSE, 1)
           /\ IdsWithin(MaxTwoIds)'
    \/ PeerBecomes(__init__(Peer))
    \/ \E a \in TwoAccounts, h \in TwoHospitals :
           PeerBecomes(register_user(Peer, a[1], PwValid, a[2], h, "name", "5a"))
    \/ \E p \in TwoPatients, h \in TwoHospitals :
           /\ PeerBecomes(add_note(took_id(Peer),
                                   PatientNote(p, p, 0, NoteText, "patient", h, FALSE, FALSE,
                                               None, None, uuid4(next_id + 1), 1),
                                   h))
           /\ IdsWithin(MaxTwoIds)'

SpecTwo == Init /\ [][NextTwo]_vars

\* the user records and the notes of document d, each with its hospital
Stored(d) ==
    UNION {{<<h, "user", d[h].users[k]>> : k \in DOMAIN d[h].users}
               \cup {<<h, "note", n.note_id>> : n \in Range(d[h].notes)} : h \in DOMAIN d}

\* everything the document d holds is in the data file
Persisted(d, file) == Stored(d) \subseteq Stored(load_data(file))

\* C30: every write of the data file puts there the whole in-memory document
\* of the service object that saved, whatever the other object holds; and a
\* step of one service object, taken when the file holds all that object
\* has, leaves the file holding all it has: with a single service object no
\* mutation that returned is ever missing from the file.
C30_LastSaveWins ==
    [][/\ disk' # disk => (disk' = Some(data') \/ disk' = Some(peer'.data))
       /\ (peer' = peer /\ disk' # disk) => disk' = Some(data')
       /\ (peer' # peer /\ disk' # disk) => disk' = Some(peer'.data)
       /\ (peer' = peer /\ Persisted(data, disk)) => Persisted(data', disk')
       /\ (peer' # peer /\ Persisted(peer.data, disk)) => Persisted(peer'.data, disk')
      ]_vars

\* lost update: the first service object registered the patient u1 and was
\* told so, the second one, which had loaded the file before, saved
\* afterwards, and the file no longer holds the patient u1
C30_Witness ==
    /\ ret = Return("register_user", "True")
    /\ "H1" \in DOMAIN data /\ "u1_patient" \in DOMAIN data["H1"].users
    /\ disk = Some(peer.data)
    /\ "H1" \in DOMAIN peer.data
    /\ "u1_patient" \notin DOMAIN load_data(disk)["H1"].users
    /\ "u2_patient" \in DOMAIN load_data(disk)["H1"].users
====
